---- MODULE Spec2Model ----
(***************************************************************************)
(* A model of the multi-channel ATC monitor:                               *)
(*   - TranscriptionWorkerPool and the MultiChannelATCMonitor callbacks    *)
(*     (src/core/multi_channel_monitor.py),                                *)
(*   - OpenSkySource / ADSBTracker (src/tracking/adsb_tracker.py),         *)
(*   - RollingContextManager / ContextBuilder / OllamaCorrelator           *)
(*     (src/analysis/ollama_correlator.py).                                *)
(* Each subsystem has its own specification over the shared variables;     *)
(* a specification leaves the variables of the other subsystems alone.     *)
(***************************************************************************)
EXTENDS Integers, Sequences, FiniteSets, TLC

VARIABLES
    \* ---- transcription pool and monitor (multi_channel_monitor.py)
    is_monitoring,          \* MultiChannelATCMonitor.is_monitoring
    running,                \* TranscriptionWorkerPool.running
    work_queue,             \* TranscriptionWorkerPool.work_queue (FIFO)
    jobs,                   \* every job ever submitted, in submit order
    wpc,                    \* position of each worker thread in _worker_loop
    wjob,                   \* the job a worker holds
    wstatus,                \* the worker_status each worker sent to the GUI last
    rpc,                    \* position of each recorder thread in recording_callback
    spc,                    \* position of the thread running start/stop_monitoring
    stop_puts,              \* stop(): number of None signals already put
    channel_transmissions,  \* MultiChannelATCMonitor.channel_transmissions
    \* ---- OpenSkySource and the poller thread (tracking/adsb_tracker.py)
    now,                    \* time.time(), in seconds
    credentials,            \* OpenSkySource.credentials is set
    token,                  \* OpenSkySource.token (0: None, n: the n-th token issued)
    token_expiry,           \* OpenSkySource.token_expiry
    last_request_time,      \* OpenSkySource.last_request_time
    opc,                    \* position of the poller thread
    hdr,                    \* the token get_aircraft_in_area puts in the header (0: none)
    issued,                 \* number of tokens the token endpoint has issued
    call,                   \* what _get_access_token did in the current call
    req,                    \* the latest state request sent
    denied,                 \* the token endpoint's refusals and what followed
    \* ---- ADSBTracker, its writer and a reader (tracking/adsb_tracker.py)
    variant,                \* which ADSBTracker class runs
    dicts,                  \* keys of every dict object built so far
    full,                   \* per dict object: the keys it is meant to end with
    current_aircraft,       \* ADSBTracker.current_aircraft: reference to a dict
    tpc,                    \* position of the poller in update_aircraft_positions
    tlist,                  \* aircraft_list of the update in progress
    tleft,                  \* aircraft the current loop has still to insert
    tnew,                   \* the dict the comprehension is building
    tick,                   \* the latest poll: its outcome, the snapshot before it
    rdpc,                   \* position of the reader
    rref,                   \* the dict the reader iterates
    rsize,                  \* its size when the iteration began
    rseen,                  \* the contacts the reader has got so far
    \* ---- one channel's LLM correlation path
    channel_name_len,       \* length of the channel's name
    appended,               \* transmissions appended so far
    llm_history,            \* channel_transmissions[channel_name]
    recent_transmissions,   \* the batch submitted to correlate
    tx_included,            \* the transmissions build_context_prompt put in the prompt
    tx_id,                  \* transmission_id of the correlation being resolved
    resolved,               \* what the monitor resolved it to, and what the prompt labelled so
    lpc,                    \* position in run_llm_correlation
    \* ---- OllamaCorrelator.correlate after the LLM call
    response_text,          \* result["response"]
    hit_limit,              \* eval_count >= max_response_tokens - 50
    repair_called,          \* _attempt_json_repair ran on the text
    parse_input,            \* the text handed to _parse_response
    jpc,                    \* position in correlate
    \* ---- one correlate call up to its request (analysis/ollama_correlator.py)
    max_context_tokens,     \* RollingContextManager.max_context_tokens
    max_response_tokens,    \* RollingContextManager.max_response_tokens
    adsb_data,              \* the contacts passed in: the length of each one's line
    transmissions,          \* the batch passed in: the length of each one's text
    tx_name_len,            \* length of the channel name of the batch
    num_adsb,               \* contacts build_context_prompt included
    num_tx,                 \* transmissions build_context_prompt included
    prompt_tokens,          \* _estimate_tokens(prompt)
    overflow_logged,        \* the budget overflow warning was logged
    request_sent,           \* the POST to /api/generate was made
    cpc,                    \* position in correlate
    adsb_included,          \* build_context_prompt's adsb_included: positions in adsb_data
    txs_included,           \* build_context_prompt's tx_included: positions in transmissions
    \* ---- one correlate call from its request on, and the monitor's use of the result
    llm_outcome,            \* what the POST to the LLM does
    batch_len,              \* len(transmissions) of the call
    response_json,          \* what the response text holds once parsed
    parsed,                 \* the dict correlate works on
    exc,                    \* the exception in flight inside the try block
    result,                 \* what correlate returned, or that it raised
    alert_events,           \* the alerts run_llm_correlation reported
    xpc,                    \* position in correlate / run_llm_correlation
    \* ---- one channel's recorder (audio/recorders.py)
    recording_transmission, \* record_with_vad: a segment is being recorded
    current_transmission,   \* the number of chunks in the segment being recorded
    silence_count,          \* consecutive silent chunks counted by the loop
    gap,                    \* silent chunks read since the last voiced chunk
    had_voice,              \* a voiced chunk has been read
    bridged,                \* the segment being recorded spans a silence of 1 s or more
    split,                  \* a voiced chunk after a short silence began a new segment
    last_segment,           \* the segment written and handed to the callback last
    segments_saved,         \* how many segments were written
    rec_pc,                 \* position of record_with_vad
    ffmpeg_process,         \* state of the channel's decoder process
    final_segment,          \* what the finally block did with the segment in progress
    \* ---- stop_monitoring against the clock (core/multi_channel_monitor.py)
    stop_clock,             \* seconds since stop_monitoring was called
    busy_left,              \* per worker: seconds of work left when stop was called
    joined,                 \* workers stop() has joined so far
    decoder,                \* per channel: state of the ffmpeg process
    terminated_at,          \* stop_clock when the decoders were sent SIGTERM
    stats_printed,          \* print_statistics ran
    kpc,                    \* position in stop_monitoring
    \* ---- statistics counters under concurrent callbacks
    stats,                  \* the counters: value of each
    performed,              \* per counter: how many += 1 were carried out
    reg,                    \* per worker: the value its += 1 has read
    cb_pc,                  \* per worker: which += 1 of its callback it is at
    \* ---- who refreshes the contacts snapshot
    monitor_kind,           \* which monitor runs: multi-channel or single-channel
    snap_writes,            \* assignments to ADSBTracker.current_aircraft so far
    written_by,             \* the threads that assigned current_aircraft
    refreshed_by,           \* the threads that called update_aircraft_positions
    pl_pc,                  \* position of the poller thread (adsb_update_worker)
    tr_pc,                  \* position of the transcription thread
    \* ---- the GUI's update thread (gui/map_app_webview.py)
    update_queue,           \* the queue the monitor publishes on: ids, 0 for other commands
    published,              \* how many transmission events were published
    pending_transmissions,  \* the deque of transmissions waiting for a flush
    displayed_transcripts,  \* the transmissions the UI shows
    applied,                \* every transmission applied to the UI, in order of application
    overlay_initialized,    \* the overlay is injected
    max_pending_transmissions, \* cap of pending_transmissions
    max_batch_size,         \* cap of one flush
    max_displayed_transcripts, \* cap of displayed_transcripts
    \* ---- one surveillance tick from response to snapshot (tracking/adsb_tracker.py)
    area_response,          \* data['states'] of the provider's answer
    area_pc,                \* position of update_aircraft_positions
    area_result,            \* how the last tick ended
    snapshot,               \* ADSBTracker.current_aircraft: icao24 -> aircraft
    \* ---- the channels' rolling histories (core/multi_channel_monitor.py)
    llm_max_transmissions,  \* utils/config.py: the configured LLM_MAX_TRANSMISSIONS
    history_of,             \* channel_transmissions: each channel's history
    appended_to,            \* every transmission appended to each channel, in order
    recent_batch,           \* the recent_transmissions of the last append
    last_channel,           \* the channel of the last append, 0 before the first
    \* ---- the monitor's background threads (core/multi_channel_monitor.py)
    adsb_thread,            \* position of the thread running adsb_update_worker
    stats_thread,           \* position of the thread running stats_update_worker
    \* ---- stop_monitoring called twice, against the recorder threads
    monitoring,             \* MultiChannelATCMonitor.is_monitoring
    stop_pc,                \* per caller of stop_monitoring: its position
    pool_stops,             \* how often transcription_pool.stop() was called
    terminate_calls,        \* per channel: terminate() calls made by stop_monitoring
    statistics_prints,      \* how often print_statistics ran
    recorder_pc,            \* per channel: position of the recorder thread
    ffmpeg,                 \* per channel: the recorder's ffmpeg_process
    in_flight,              \* per channel: a segment is being recorded
    wav_written,            \* per channel: segments written to a WAV file
    wav_submitted,          \* per channel: segments submitted to the pool
    \* ---- transmission_lock and the list objects of run_llm_correlation
    transmission_lock,      \* the worker holding the lock, 0 when it is free
    heap,                   \* the list objects built so far: the contents of each
    history_ref,            \* channel_transmissions[channel_name]: a list object
    lock_pc,                \* per worker: position in run_llm_correlation
    batch_ref,              \* per worker: the list object passed to correlate
    batch_sent,             \* per worker: what that list held when it was built
    lock_appends,           \* transmissions appended so far
    lock_max_tx             \* context_builder.max_tx

poolVars == <<is_monitoring, running, work_queue, jobs, wpc, wjob, wstatus,
              rpc, spc, stop_puts, channel_transmissions>>

srcVars == <<now, credentials, token, token_expiry, last_request_time, opc,
             hdr, issued, call, req, denied>>

trkVars == <<variant, dicts, full, current_aircraft, tpc, tlist, tleft, tnew,
             tick, rdpc, rref, rsize, rseen>>

llmVars == <<channel_name_len, appended, llm_history, recent_transmissions,
             tx_included, tx_id, resolved, lpc>>

repairVars == <<response_text, hit_limit, repair_called, parse_input, jpc>>

promptVars == <<max_context_tokens, max_response_tokens, adsb_data,
                 transmissions, tx_name_len, num_adsb, num_tx, prompt_tokens,
                 overflow_logged, request_sent, cpc, adsb_included,
                 txs_included>>

responseVars == <<llm_outcome, batch_len, response_json, parsed, exc, result,
                   alert_events, xpc>>

recVars == <<recording_transmission, current_transmission, silence_count,
              gap, had_voice, bridged, split, last_segment, segments_saved,
              rec_pc,
            ffmpeg_process, final_segment>>

stopVars == <<stop_clock, busy_left, joined, decoder, terminated_at,
               stats_printed, kpc>>

counterVars == <<stats, performed, reg, cb_pc>>

snapVars == <<monitor_kind, snap_writes, written_by, refreshed_by, pl_pc,
               tr_pc>>

guiVars == <<update_queue, published, pending_transmissions,
              displayed_transcripts, applied, overlay_initialized,
              max_pending_transmissions, max_batch_size,
              max_displayed_transcripts>>

areaVars == <<area_response, area_pc, area_result, snapshot>>

historyVars == <<llm_max_transmissions, history_of, appended_to, recent_batch,
                  last_channel>>

threadVars == <<adsb_thread, stats_thread>>

raceVars == <<monitoring, stop_pc, pool_stops, terminate_calls,
               statistics_prints, recorder_pc, ffmpeg, in_flight, wav_written,
               wav_submitted>>

lockVars == <<transmission_lock, heap, history_ref, lock_pc, batch_ref,
               batch_sent, lock_appends, lock_max_tx>>

vars ==
    <<poolVars, srcVars, trkVars, llmVars, repairVars, promptVars,
      responseVars, recVars, stopVars, counterVars, snapVars, guiVars,
      areaVars, historyVars, threadVars, raceVars, lockVars>>

nonPool == <<srcVars, trkVars, llmVars, repairVars, promptVars, responseVars, recVars, stopVars, counterVars, snapVars, guiVars, areaVars, historyVars, threadVars, raceVars, lockVars>>
nonSrc == <<poolVars, trkVars, llmVars, repairVars, promptVars, responseVars, recVars, stopVars, counterVars, snapVars, guiVars, areaVars, historyVars, threadVars, raceVars, lockVars>>
nonTrk == <<poolVars, srcVars, llmVars, repairVars, promptVars, responseVars, recVars, stopVars, counterVars, snapVars, guiVars, areaVars, historyVars, threadVars, raceVars, lockVars>>
nonLlm == <<poolVars, srcVars, trkVars, repairVars, promptVars, responseVars, recVars, stopVars, counterVars, snapVars, guiVars, areaVars, historyVars, threadVars, raceVars, lockVars>>
nonRepair == <<poolVars, srcVars, trkVars, llmVars, promptVars, responseVars, recVars, stopVars, counterVars, snapVars, guiVars, areaVars, historyVars, threadVars, raceVars, lockVars>>
nonPrompt == <<poolVars, srcVars, trkVars, llmVars, repairVars, responseVars, recVars, stopVars, counterVars, snapVars, guiVars, areaVars, historyVars, threadVars, raceVars, lockVars>>
nonResponse == <<poolVars, srcVars, trkVars, llmVars, repairVars, promptVars, recVars, stopVars, counterVars, snapVars, guiVars, areaVars, historyVars, threadVars, raceVars, lockVars>>
nonRecorder == <<poolVars, srcVars, trkVars, llmVars, repairVars, promptVars, responseVars, stopVars, counterVars, snapVars, guiVars, areaVars, historyVars, threadVars, raceVars, lockVars>>
nonStop == <<poolVars, srcVars, trkVars, llmVars, repairVars, promptVars, responseVars, recVars, counterVars, snapVars, guiVars, areaVars, historyVars, threadVars, raceVars, lockVars>>
nonCounters == <<poolVars, srcVars, trkVars, llmVars, repairVars, promptVars, responseVars, recVars, stopVars, snapVars, guiVars, areaVars, historyVars, threadVars, raceVars, lockVars>>
nonSnapshot == <<poolVars, srcVars, trkVars, llmVars, repairVars, promptVars, responseVars, recVars, stopVars, counterVars, guiVars, areaVars, historyVars, threadVars, raceVars, lockVars>>
nonGui == <<poolVars, srcVars, trkVars, llmVars, repairVars, promptVars, responseVars, recVars, stopVars, counterVars, snapVars, areaVars, historyVars, threadVars, raceVars, lockVars>>
nonArea == <<poolVars, srcVars, trkVars, llmVars, repairVars, promptVars, responseVars, recVars, stopVars, counterVars, snapVars, guiVars, historyVars, threadVars, raceVars, lockVars>>
nonHistory == <<poolVars, srcVars, trkVars, llmVars, repairVars, promptVars, responseVars, recVars, stopVars, counterVars, snapVars, guiVars, areaVars, threadVars, raceVars, lockVars>>
nonThreads == <<poolVars, srcVars, trkVars, llmVars, repairVars, promptVars, responseVars, recVars, stopVars, counterVars, snapVars, guiVars, areaVars, historyVars, raceVars, lockVars>>
nonRace == <<poolVars, srcVars, trkVars, llmVars, repairVars, promptVars, responseVars, recVars, stopVars, counterVars, snapVars, guiVars, areaVars, historyVars, threadVars, lockVars>>
nonLock == <<poolVars, srcVars, trkVars, llmVars, repairVars, promptVars, responseVars, recVars, stopVars, counterVars, snapVars, guiVars, areaVars, historyVars, threadVars, raceVars>>

(***************************************************************************)
(* Bounds of the model.                                                    *)
(***************************************************************************)
NumWorkers == 2
NumChannels == 1
MaxJobs == 2

Workers == 1..NumWorkers
Channels == 1..NumChannels

(***************************************************************************)
(* Program constants.                                                      *)
(***************************************************************************)
\* utils/config.py
LLM_MAX_TRANSMISSIONS == 15
\* TranscriptionWorkerPool.__init__: queue.Queue() is built without maxsize,
\* and maxsize 0 means the queue has no bound
WorkQueueMaxsize == 0

\* queue.Queue(): the stop signal put by stop() is None
NoneItem == 0

Max(a, b) == IF a >= b THEN a ELSE b
Min(a, b) == IF a <= b THEN a ELSE b

\* MultiChannelATCMonitor.__init__, for a configured LLM_MAX_TRANSMISSIONS:
\* max(configured * 3, configured or 1) at line 187, then, at lines 246-249,
\* max(that, context_builder.max_tx * 3) with context_builder.max_tx = configured
MaxLlmHistoryFor(configured) ==
    Max(Max(configured * 3, IF configured # 0 THEN configured ELSE 1),
        configured * 3)

max_llm_history == MaxLlmHistoryFor(LLM_MAX_TRANSMISSIONS)

\* history[-n:] of a Python list
LastN(s, n) ==
    IF n <= 0 \/ Len(s) <= n THEN s ELSE SubSeq(s, Len(s) - n + 1, Len(s))

\* what transcribe_audio_internal can hand to the worker: a payload with text
\* ("text"); None or a payload whose text is empty or blank, which line 112
\* treats alike ("no_text"); or an exception ("raise")
Outcomes == {"text", "no_text", "raise"}

\* queue.Queue.put blocks only when maxsize > 0 and the queue holds maxsize items
PutEnabled(q) == WorkQueueMaxsize <= 0 \/ Len(q) < WorkQueueMaxsize

\* the jobs (not the None signals) waiting in the queue
QueuedJobs(q) == SelectSeq(q, LAMBDA x : x # NoneItem)

(***************************************************************************)
(* Pool and monitor: initial state (after MultiChannelATCMonitor.__init__) *)
(***************************************************************************)
PoolInit ==
    /\ is_monitoring = FALSE
    /\ running = FALSE
    /\ work_queue = <<>>
    /\ jobs = <<>>
    /\ wpc = [w \in Workers |-> "unstarted"]
    /\ wjob = [w \in Workers |-> 0]
    /\ wstatus = [w \in Workers |-> "none"]
    /\ rpc = [c \in Channels |-> "unstarted"]
    /\ spc = "new"
    /\ stop_puts = 0
    /\ channel_transmissions = [c \in Channels |-> <<>>]

\* start_monitoring: is_monitoring = True, pool.start() (running = True, one
\* thread per worker), one recorder thread per channel
StartMonitoring ==
    /\ spc = "new"
    /\ is_monitoring' = TRUE
    /\ running' = TRUE
    /\ wpc' = [w \in Workers |-> "load"]
    /\ rpc' = [c \in Channels |-> "record"]
    /\ spc' = "monitoring"
    /\ UNCHANGED <<work_queue, jobs, wjob, stop_puts, channel_transmissions>>
    /\ UNCHANGED wstatus
    /\ UNCHANGED nonPool

\* _worker_loop, lines 74-88: the worker builds its transcriber, calls
\* load_model() and enters the loop.  (A load that fails leaves the model None,
\* and every transcription of that worker then returns None: outcome "no_text".)
WorkerLoad(w) ==
    /\ wpc[w] = "load"
    /\ wpc' = [wpc EXCEPT ![w] = "check"]
    /\ UNCHANGED <<is_monitoring, running, work_queue, jobs, wjob, rpc, spc,
                   stop_puts, channel_transmissions>>
    /\ wstatus' = [wstatus EXCEPT ![w] = "idle"]
    /\ UNCHANGED nonPool

\* line 90: while self.running
WorkerCheck(w) ==
    /\ wpc[w] = "check"
    /\ wpc' = [wpc EXCEPT ![w] = IF running THEN "get" ELSE "exited"]
    /\ UNCHANGED <<is_monitoring, running, work_queue, jobs, wjob, rpc,
                   spc, stop_puts, channel_transmissions>>
    /\ UNCHANGED wstatus
    /\ UNCHANGED nonPool

\* lines 93-97 and 131-132: work_queue.get(timeout=1); queue.Empty -> continue;
\* None -> break; otherwise the worker holds the job
WorkerGet(w) ==
    /\ wpc[w] = "get"
    /\ IF work_queue = <<>>
       THEN /\ wpc' = [wpc EXCEPT ![w] = "check"]
            /\ UNCHANGED <<work_queue, jobs, wjob>>
       ELSE /\ work_queue' = Tail(work_queue)
            /\ IF Head(work_queue) = NoneItem
               THEN /\ wpc' = [wpc EXCEPT ![w] = "exited"]
                    /\ UNCHANGED <<jobs, wjob>>
               ELSE /\ wpc' = [wpc EXCEPT ![w] = "busy"]
                    /\ wjob' = [wjob EXCEPT ![w] = Head(work_queue)]
                    /\ jobs' = [jobs EXCEPT ![Head(work_queue)].status = "running"]
    /\ UNCHANGED <<is_monitoring, running, rpc, spc, stop_puts,
                   channel_transmissions>>
    /\ wstatus' = IF work_queue # <<>> /\ Head(work_queue) # NoneItem
                  THEN [wstatus EXCEPT ![w] = "busy"] ELSE wstatus
    /\ UNCHANGED nonPool

\* line 112: the test that decides whether the callback is called
HasText(o) == o = "text"

\* lines 112-140: where the worker goes once transcribe_audio_internal is
\* through: on to the callback, or (failure value, empty text, exception
\* caught by the handler) back to the top of the loop
ExitsOnFailure(o) == IF HasText(o) THEN "callback" ELSE "exited"
AfterTranscribe(o) == IF HasText(o) THEN "callback" ELSE "check"

\* lines 108-129 and 133-140: transcribe; a payload with text goes on to the
\* callback; an empty payload or None skips it (idle status, task_done); an
\* exception lands in the handler, which only logs and reports idle.
WorkerTranscribe(w) ==
    /\ wpc[w] = "busy"
    /\ \E o \in Outcomes :
          /\ jobs' = [jobs EXCEPT ![wjob[w]].outcome = o,
                                  ![wjob[w]].status =
                                      IF HasText(o) THEN "running" ELSE "finished"]
          /\ wpc' = [wpc EXCEPT ![w] = AfterTranscribe(o)]
          /\ wjob' = [wjob EXCEPT ![w] = IF HasText(o) THEN wjob[w] ELSE 0]
    /\ UNCHANGED <<is_monitoring, running, work_queue, rpc, spc,
                   stop_puts, channel_transmissions>>
    /\ wstatus' = IF wpc'[w] = "callback" THEN wstatus
                  ELSE [wstatus EXCEPT ![w] = "idle"]
    /\ UNCHANGED nonPool

\* run_llm_correlation, lines 457-463, under transmission_lock: append to the
\* channel's history and cap it at max_llm_history
AppendHistory(history, tx) == LastN(Append(history, tx), max_llm_history)

\* line 120 -> transcription_callback (381-408): the callback is invoked; it
\* saves the transcript (which can raise: the worker's handler catches it) and
\* then run_llm_correlation appends the transmission under transmission_lock
WorkerCallback(w) ==
    /\ wpc[w] = "callback"
    /\ \E saved \in BOOLEAN :
          IF saved
          THEN /\ channel_transmissions' =
                     [channel_transmissions EXCEPT ![jobs[wjob[w]].channel] =
                         AppendHistory(@, wjob[w])]
               /\ jobs' = [jobs EXCEPT ![wjob[w]].callbacks = @ + 1]
               /\ wpc' = [wpc EXCEPT ![w] = "correlate"]
               /\ UNCHANGED wjob
          ELSE /\ jobs' = [jobs EXCEPT ![wjob[w]].callbacks = @ + 1,
                                       ![wjob[w]].callback_raised = TRUE,
                                       ![wjob[w]].status = "finished"]
               /\ wpc' = [wpc EXCEPT ![w] = "check"]
               /\ wjob' = [wjob EXCEPT ![w] = 0]
               /\ UNCHANGED channel_transmissions
    /\ UNCHANGED <<is_monitoring, running, work_queue, rpc, spc, stop_puts>>
    /\ wstatus' = IF wpc'[w] = "correlate" THEN wstatus
                  ELSE [wstatus EXCEPT ![w] = "idle"]
    /\ UNCHANGED nonPool

\* run_llm_correlation, lines 465-517: the correlator call and the logging of
\* its result, outside the lock; then lines 122-129 of the worker loop
WorkerCorrelate(w) ==
    /\ wpc[w] = "correlate"
    /\ jobs' = [jobs EXCEPT ![wjob[w]].status = "finished"]
    /\ wjob' = [wjob EXCEPT ![w] = 0]
    /\ wpc' = [wpc EXCEPT ![w] = "check"]
    /\ UNCHANGED <<is_monitoring, running, work_queue, rpc, spc,
                   stop_puts, channel_transmissions>>
    /\ wstatus' = [wstatus EXCEPT ![w] = "idle"]
    /\ UNCHANGED nonPool

\* recording_callback, lines 350-351: a recorder thread hands over a finalized
\* segment; when the monitor is not monitoring the callback returns at once and
\* nothing changes
RecordingCheck(c) ==
    /\ rpc[c] = "record"
    /\ Len(jobs) + Cardinality({d \in Channels : rpc[d] = "submit"}) < MaxJobs
    /\ is_monitoring
    /\ rpc' = [rpc EXCEPT ![c] = "submit"]
    /\ UNCHANGED <<is_monitoring, running, work_queue, jobs, wpc, wjob,
                   spc, stop_puts, channel_transmissions>>
    /\ UNCHANGED wstatus
    /\ UNCHANGED nonPool

\* TranscriptionWorkerPool.submit, lines 142-144
Submit(q, job) == Append(q, job)

\* recording_callback, lines 353-379: stats, GUI event, pool.submit
RecordingSubmit(c) ==
    /\ rpc[c] = "submit"
    /\ PutEnabled(work_queue)
    /\ jobs' = Append(jobs, [channel |-> c, status |-> "queued",
                             outcome |-> "pending", callbacks |-> 0,
                             callback_raised |-> FALSE])
    /\ work_queue' = Submit(work_queue, Len(jobs) + 1)
    /\ rpc' = [rpc EXCEPT ![c] = "record"]
    /\ UNCHANGED <<is_monitoring, running, wpc, wjob, spc, stop_puts,
                   channel_transmissions>>
    /\ UNCHANGED wstatus
    /\ UNCHANGED nonPool

\* stop_monitoring, lines 559-564, and stop(), line 148: is_monitoring = False,
\* then running = False.  No other thread reads both flags, so the two writes
\* are one step.
StopMonitoring ==
    /\ spc = "monitoring"
    /\ is_monitoring' = FALSE
    /\ running' = FALSE
    /\ spc' = "signal"
    /\ UNCHANGED <<work_queue, jobs, wpc, wjob, rpc, stop_puts,
                   channel_transmissions>>
    /\ UNCHANGED wstatus
    /\ UNCHANGED nonPool

\* stop(), lines 151-152: one None per worker
StopPutNone ==
    /\ spc = "signal"
    /\ stop_puts < NumWorkers
    /\ PutEnabled(work_queue)
    /\ work_queue' = Append(work_queue, NoneItem)
    /\ stop_puts' = stop_puts + 1
    /\ UNCHANGED <<is_monitoring, running, jobs, wpc, wjob, rpc, spc,
                   channel_transmissions>>
    /\ UNCHANGED wstatus
    /\ UNCHANGED nonPool

\* stop(), lines 155-158: join each worker with a 5 s timeout (the join gives
\* up on a worker that is still busy), then stop_monitoring goes on
StopJoin ==
    /\ spc = "signal"
    /\ stop_puts = NumWorkers
    /\ spc' = "stopped"
    /\ UNCHANGED <<is_monitoring, running, work_queue, jobs, wpc, wjob,
                   rpc, stop_puts, channel_transmissions>>
    /\ UNCHANGED wstatus
    /\ UNCHANGED nonPool

PoolNext ==
    \/ StartMonitoring
    \/ \E w \in Workers : WorkerLoad(w)
    \/ \E w \in Workers : WorkerCheck(w)
    \/ \E w \in Workers : WorkerGet(w)
    \/ \E w \in Workers : WorkerTranscribe(w)
    \/ \E w \in Workers : WorkerCallback(w)
    \/ \E w \in Workers : WorkerCorrelate(w)
    \/ \E c \in Channels : RecordingCheck(c)
    \/ \E c \in Channels : RecordingSubmit(c)
    \/ StopMonitoring
    \/ StopPutNone
    \/ StopJoin

(***************************************************************************)
(* OpenSkySource and the poller thread (adsb_update_worker).               *)
(* Time is the wall clock in seconds; it advances where the code blocks:   *)
(* in time.sleep and in the HTTP calls.                                    *)
(***************************************************************************)
\* bounds: the wall clock at construction and how far the model follows it
StartTime == 1000
Horizon == 20
MaxTime == StartTime + Horizon

\* OpenSkySource.__init__: rate_limit = 5 if self.credentials else 10
RATE_LIMIT_AUTH == 5
RATE_LIMIT_ANON == 10
\* _get_access_token: the cached token is reused while time.time() < token_expiry - 60
TOKEN_REFRESH_MARGIN == 60
\* adsb_update_worker: update_interval = 5 if credentials else 10; 60 after an exception
UPDATE_INTERVAL_AUTH == 5
UPDATE_INTERVAL_ANON == 10
ERROR_BACKOFF == 60

\* how long an HTTP call can take (the token POST has timeout 10, the state GET 15)
TokenLatency == {0, 10}
StateLatency == {0, 15}
\* the poller's time.sleep(update_interval) returns after that time or a
\* little later
Oversleep == {0, 1}
\* expires_in of an issued token (0 when the answer carries none)
ExpiresIn == {0, 70}

rate_limit(c) == IF c THEN RATE_LIMIT_AUTH ELSE RATE_LIMIT_ANON

UpdateIntervalSame(c) == UPDATE_INTERVAL_AUTH
update_interval(c) == IF c THEN UPDATE_INTERVAL_AUTH ELSE UPDATE_INTERVAL_ANON

\* _get_access_token, line 135: if self.token and time.time() < self.token_expiry - 60
TokenUsableNoMargin(t, expiry, time) == t # 0 /\ time < expiry
TokenUsable(t, expiry, time) == t # 0 /\ time < expiry - TOKEN_REFRESH_MARGIN

NoCall == [cached |-> FALSE, stale |-> FALSE, remaining |-> 0, posts |-> 0,
           first |-> "none", second |-> "none"]
NoReq == [sent |-> FALSE, time |-> 0, hdr |-> 0, cached |-> FALSE, stale |-> FALSE,
          remaining |-> 0, posts |-> 0, newest |-> 0, gap |-> -1, outcome |-> "none",
          after |-> "none"]
NoDenial == [seen |-> FALSE, posts_after |-> FALSE, auth_after |-> FALSE]

\* OpenSkySource.__init__ (lines 96-129); the credentials file either yields
\* credentials or does not
SourceInit ==
    /\ now = StartTime
    /\ credentials \in BOOLEAN
    /\ token = 0
    /\ token_expiry = 0
    /\ last_request_time = 0
    /\ opc = "call"
    /\ hdr = 0
    /\ issued = 0
    /\ call = NoCall
    /\ req = NoReq
    /\ denied = NoDenial

SourceParked ==
    /\ now = StartTime
    /\ credentials = FALSE
    /\ token = 0
    /\ token_expiry = 0
    /\ last_request_time = 0
    /\ opc = "call"
    /\ hdr = 0
    /\ issued = 0
    /\ call = NoCall
    /\ req = NoReq
    /\ denied = NoDenial

\* get_aircraft_in_area, lines 199-201: sleep for what is left of rate_limit
\* since last_request_time
RateLimit ==
    /\ opc = "call"
    /\ now <= MaxTime
    /\ IF now - last_request_time < rate_limit(credentials)
       THEN now' = now + (rate_limit(credentials) - (now - last_request_time))
       ELSE now' = now
    /\ opc' = "token"
    /\ call' = NoCall
    /\ UNCHANGED <<credentials, token, token_expiry, last_request_time, hdr,
                   issued, req, denied>>
    /\ UNCHANGED nonSrc

\* _get_access_token, lines 133-136: no credentials -> None; a cached token
\* that is still usable is returned; otherwise the token endpoint is asked
GetAccessToken ==
    /\ opc = "token"
    /\ IF ~credentials
       THEN /\ hdr' = 0
            /\ opc' = "send"
            /\ UNCHANGED call
       ELSE IF TokenUsable(token, token_expiry, now)
       THEN /\ hdr' = token
            /\ opc' = "send"
            /\ call' = [call EXCEPT !.cached = TRUE,
                                    !.remaining = token_expiry - now]
       ELSE /\ hdr' = 0
            /\ opc' = "post"
            /\ call' = [call EXCEPT !.stale = (token # 0),
                                    !.remaining = token_expiry - now]
    /\ UNCHANGED <<now, credentials, token, token_expiry, last_request_time,
                   issued, req, denied>>
    /\ UNCHANGED nonSrc

\* lines 187-190: the answer's access_token and expires_in are stored; an
\* answer without access_token stores None
StoreToken(t) ==
    \E e \in ExpiresIn, has_token \in BOOLEAN :
        /\ issued' = IF has_token THEN issued + 1 ELSE issued
        /\ token' = IF has_token THEN issued + 1 ELSE 0
        /\ token_expiry' = t + e
        /\ hdr' = IF has_token THEN issued + 1 ELSE 0

\* what follows a refusal of the token endpoint
Denied(d, posted) ==
    [seen |-> TRUE, posts_after |-> d.posts_after \/ (d.seen /\ posted),
     auth_after |-> d.auth_after]
NotedPost(d) == [d EXCEPT !.posts_after = d.posts_after \/ d.seen]

\* a second POST after every answer that is not a success
RetryAfterAnyError(r) == IF r = "ok" THEN "send" ELSE "fallback"

\* _get_access_token, lines 160-161 and 181-193: only HTTP 400 leads to the
\* Basic fallback; every other outcome ends the acquisition
AfterTokenPost(r) == IF r = "400" THEN "fallback" ELSE "send"

\* _get_access_token, lines 150-160 and 181-193: the POST with the client
\* credentials in the form.  200 stores the token; 400 leads to the Basic
\* fallback; any other error status, a timeout or a connection error returns
\* None, and the request goes out without a header.
TokenPost ==
    /\ opc = "post"
    /\ \E d \in TokenLatency, r \in {"ok", "400", "4xx", "5xx", "exc"} :
          /\ now' = now + d
          /\ call' = [call EXCEPT !.posts = @ + 1, !.first = r]
          /\ opc' = AfterTokenPost(r)
          /\ CASE r = "ok" ->
                    /\ StoreToken(now + d)
                    /\ denied' = NotedPost(denied)
               [] r = "400" ->
                    /\ denied' = NotedPost(denied)
                    /\ UNCHANGED <<token, token_expiry, hdr, issued>>
               [] r = "4xx" ->
                    /\ denied' = Denied(denied, TRUE)
                    /\ UNCHANGED <<token, token_expiry, hdr, issued>>
               [] OTHER ->
                    /\ denied' = NotedPost(denied)
                    /\ UNCHANGED <<token, token_expiry, hdr, issued>>
    /\ UNCHANGED <<credentials, last_request_time, req>>
    /\ UNCHANGED nonSrc

\* _get_access_token, lines 161-180: after HTTP 400, one more POST with HTTP
\* Basic authentication; an error status or a request error returns None
TokenFallback ==
    /\ opc = "fallback"
    /\ \E d \in TokenLatency, r \in {"ok", "4xx", "5xx", "exc"} :
          /\ now' = now + d
          /\ call' = [call EXCEPT !.posts = @ + 1, !.second = r]
          /\ opc' = "send"
          /\ CASE r = "ok" ->
                    /\ StoreToken(now + d)
                    /\ denied' = NotedPost(denied)
               [] r = "4xx" ->
                    /\ denied' = Denied(denied, TRUE)
                    /\ UNCHANGED <<token, token_expiry, hdr, issued>>
               [] OTHER ->
                    /\ denied' = NotedPost(denied)
                    /\ UNCHANGED <<token, token_expiry, hdr, issued>>
    /\ UNCHANGED <<credentials, last_request_time, req>>
    /\ UNCHANGED nonSrc

\* line 224 is reached for every HTTP response, whatever its status
OutcomeClass(r) == IF r \in {"ok", "http_error"} THEN "response" ELSE r

\* get_aircraft_in_area, lines 214-253: the state request goes out at `now`
\* with the header built from the token; last_request_time is set once
\* requests.get has returned a response (line 224), before raise_for_status;
\* when requests.get raises (timeout, connection error) it is not set.
\* "ok", "http_error" and "exc" (timeout, connection error) return to
\* update_aircraft_positions; "parse_exc" is an exception that is no
\* RequestException and reaches the poller's handler.
StateRequest ==
    /\ opc = "send"
    /\ \E d \in StateLatency, r \in {"ok", "http_error", "exc", "parse_exc"} :
          /\ now' = now + d
          /\ last_request_time' = IF r = "exc" THEN last_request_time ELSE now + d
          /\ opc' = IF r = "parse_exc" THEN "backoff" ELSE "sleep"
          /\ req' = [sent |-> TRUE, time |-> now, hdr |-> hdr,
                     cached |-> call.cached, stale |-> call.stale,
                     remaining |-> call.remaining, posts |-> call.posts,
                     newest |-> issued,
                     gap |-> IF req.sent THEN now - req.time ELSE -1,
                     outcome |-> OutcomeClass(r), after |-> req.outcome]
          /\ denied' = [denied EXCEPT !.auth_after = @ \/ (denied.seen /\ hdr # 0)]
    /\ UNCHANGED <<credentials, token, token_expiry, hdr, issued, call>>
    /\ UNCHANGED nonSrc

\* adsb_update_worker, lines 526-533: after update_aircraft_positions the
\* poller sleeps update_interval
PollerSleep ==
    /\ opc = "sleep"
    /\ \E o \in Oversleep : now' = now + update_interval(credentials) + o
    /\ opc' = "call"
    /\ UNCHANGED <<credentials, token, token_expiry, last_request_time, hdr,
                   issued, call, req, denied>>
    /\ UNCHANGED nonSrc

\* adsb_update_worker, lines 534-536: after an exception the poller sleeps 60 s
PollerBackoff ==
    /\ opc = "backoff"
    /\ now' = now + ERROR_BACKOFF
    /\ opc' = "call"
    /\ UNCHANGED <<credentials, token, token_expiry, last_request_time, hdr,
                   issued, call, req, denied>>
    /\ UNCHANGED nonSrc

SourceNext ==
    \/ RateLimit
    \/ GetAccessToken
    \/ TokenPost
    \/ TokenFallback
    \/ StateRequest
    \/ PollerSleep
    \/ PollerBackoff

(***************************************************************************)
(* ADSBTracker: the contacts snapshot, its writer (the poller thread in    *)
(* update_aircraft_positions) and a reader (a thread that iterates         *)
(* current_aircraft).  A dict is an object on the heap: `dicts` holds the  *)
(* keys of every dict built so far, current_aircraft refers to one.  The   *)
(* repository has two ADSBTracker classes: tracking/adsb_tracker.py, used  *)
(* by the multi-channel monitor, and adsb_tracker.py, used by main.py.     *)
(***************************************************************************)
\* bounds: transponder addresses, aircraft per answer, polls
NumIcao == 2
MaxStates == 2
MaxPolls == 2

Icaos == 1..NumIcao

Variants == {"tracking", "legacy"}

\* an aircraft of the answer: its icao24 and whether its callsign is non-empty.
\* tracking/adsb_tracker.py never looks at the callsign when it builds the dict.
Aircrafts(v) ==
    [icao24 : Icaos, callsign : IF v = "legacy" THEN BOOLEAN ELSE {TRUE}]

\* the lists get_aircraft_in_area can return
AircraftLists(v) == UNION {[1..n -> Aircrafts(v)] : n \in 0..MaxStates}

\* dict keys: an icao24 is its own key, the callsign of an aircraft is a key
\* apart from every icao24
IcaoKey(ac) == ac.icao24
CallsignKey(ac) == NumIcao + ac.icao24

RECURSIVE SelectSeqBy(_, _)
SelectSeqBy(s, v) ==
    IF s = <<>> THEN <<>>
    ELSE IF v = "tracking" \/ Head(s).callsign
         THEN <<Head(s)>> \o SelectSeqBy(Tail(s), v)
         ELSE SelectSeqBy(Tail(s), v)

\* the aircraft the dict comprehension inserts:
\*   tracking: {ac.icao24: ac for ac in aircraft_list}
\*   legacy:   {ac.callsign: ac for ac in aircraft_list if ac.callsign}
Comprehended(list, v) == SelectSeqBy(list, v)

ComprehensionKey(ac, v) == IF v = "tracking" THEN IcaoKey(ac) ELSE CallsignKey(ac)

\* the keys of the dict once update_aircraft_positions is through with it
FullKeys(list, v) ==
    IF v = "tracking"
    THEN {IcaoKey(list[i]) : i \in DOMAIN list}
    ELSE {CallsignKey(list[i]) : i \in {k \in DOMAIN list : list[k].callsign}}
         \cup {IcaoKey(list[i]) : i \in DOMAIN list}

NoTick == [outcome |-> "none", before |-> {}]

\* ADSBTracker.__init__: current_aircraft = {}
TrackerRest ==
    /\ dicts = <<{}>>
    /\ full = <<{}>>
    /\ current_aircraft = 1
    /\ tpc = "idle"
    /\ tlist = <<>>
    /\ tleft = <<>>
    /\ tnew = 1
    /\ tick = NoTick
    /\ rdpc = "idle"
    /\ rref = 1
    /\ rsize = 0
    /\ rseen = {}

TrackerInit ==
    /\ variant \in Variants
    /\ TrackerRest

TrackerParked ==
    /\ variant = "tracking"
    /\ TrackerRest

\* what get_aircraft_in_area does with its request:
\*   "ok"     -> returns the parsed list
\*   "neterr" -> the request failed; the except clause returns []
\*   "raise"  -> tracking only: an exception other than RequestException leaves
\*               get_aircraft_in_area (the legacy sources catch Exception)
FetchOutcomes(v) ==
    IF v = "tracking" THEN {"ok", "neterr", "raise"} ELSE {"ok", "neterr"}

\* update_aircraft_positions up to the start of the dict comprehension
TrackerFetch ==
    /\ tpc = "idle"
    /\ Len(dicts) <= MaxPolls
    /\ \E r \in FetchOutcomes(variant) :
        \E list \in (IF r = "ok" THEN AircraftLists(variant) ELSE {<<>>}) :
          /\ tick' = [outcome |-> r, before |-> dicts[current_aircraft]]
          /\ IF r = "raise"
             THEN UNCHANGED <<dicts, full, tpc, tlist, tleft, tnew>>
             ELSE /\ dicts' = Append(dicts, {})
                  /\ full' = Append(full, FullKeys(list, variant))
                  /\ tnew' = Len(dicts) + 1
                  /\ tlist' = list
                  /\ tleft' = Comprehended(list, variant)
                  /\ tpc' = "build"
    /\ UNCHANGED <<variant, current_aircraft, rdpc, rref, rsize, rseen>>
    /\ UNCHANGED nonTrk

\* the dict comprehension puts one more aircraft into the dict it is building
TrackerBuild ==
    /\ tpc = "build"
    /\ tleft # <<>>
    /\ dicts' = [dicts EXCEPT ![tnew] = @ \cup {ComprehensionKey(Head(tleft), variant)}]
    /\ tleft' = Tail(tleft)
    /\ UNCHANGED <<variant, full, current_aircraft, tpc, tlist, tnew, tick,
                   rdpc, rref, rsize, rseen>>
    /\ UNCHANGED nonTrk

\* self.current_aircraft = <the dict built>.  tracking: the method returns.
\* legacy: the loop `for ac in aircraft_list` over the same list follows.
TrackerAssign ==
    /\ tpc = "build"
    /\ tleft = <<>>
    /\ current_aircraft' = tnew
    /\ IF variant = "legacy" /\ tlist # <<>>
       THEN /\ tpc' = "fill"
            /\ tleft' = tlist
       ELSE /\ tpc' = "idle"
            /\ UNCHANGED tleft
    /\ UNCHANGED <<variant, dicts, full, tlist, tnew, tick, rdpc, rref, rsize,
                   rseen>>
    /\ UNCHANGED nonTrk

\* legacy: self.current_aircraft[ac.icao24] = ac, on the dict readers reach
TrackerFill ==
    /\ tpc = "fill"
    /\ dicts' = [dicts EXCEPT ![current_aircraft] = @ \cup {IcaoKey(Head(tleft))}]
    /\ tleft' = Tail(tleft)
    /\ tpc' = IF Tail(tleft) = <<>> THEN "idle" ELSE "fill"
    /\ UNCHANGED <<variant, full, current_aircraft, tlist, tnew, tick, rdpc,
                   rref, rsize, rseen>>
    /\ UNCHANGED nonTrk

\* the reader evaluates self.adsb_tracker.current_aircraft once and starts to
\* iterate that dict
ReaderGrab ==
    /\ rdpc \in {"idle", "done", "raised"}
    /\ rref' = current_aircraft
    /\ rsize' = Cardinality(dicts[current_aircraft])
    /\ rseen' = {}
    /\ rdpc' = "iter"
    /\ UNCHANGED <<variant, dicts, full, current_aircraft, tpc, tlist, tleft,
                   tnew, tick>>
    /\ UNCHANGED nonTrk

\* one step of the iteration: RuntimeError when the dict changed size since
\* the iteration began, else the next entry, or the end
ReaderNext ==
    /\ rdpc = "iter"
    /\ IF Cardinality(dicts[rref]) # rsize
       THEN /\ rdpc' = "raised"
            /\ UNCHANGED rseen
       ELSE IF dicts[rref] \ rseen = {}
            THEN /\ rdpc' = "done"
                 /\ UNCHANGED rseen
            ELSE /\ \E k \in dicts[rref] \ rseen : rseen' = rseen \cup {k}
                 /\ UNCHANGED rdpc
    /\ UNCHANGED <<variant, dicts, full, current_aircraft, tpc, tlist, tleft,
                   tnew, tick, rref, rsize>>
    /\ UNCHANGED nonTrk

TrackerNext ==
    \/ TrackerFetch
    \/ TrackerBuild
    \/ TrackerAssign
    \/ TrackerFill
    \/ ReaderGrab
    \/ ReaderNext

(***************************************************************************)
(* The LLM correlation path of one channel: run_llm_correlation appends    *)
(* the transmission and submits the recent ones, build_context_prompt      *)
(* selects and labels the ones that go into the prompt, and the monitor    *)
(* resolves the transmission_id of a returned correlation.                 *)
(***************************************************************************)
\* bound: transmissions transcribed on the channel
MaxTransmissions == 11

\* lengths of a transcript text and of the channel's name, in characters
TextLens == {1, 200}
NameLens == {3, 30}

\* OllamaCorrelator.__init__: RollingContextManager(8192, 4096)
MAX_CONTEXT_TOKENS == 8192
MAX_RESPONSE_TOKENS == 4096
\* RollingContextManager.__init__
max_prompt_tokens == MAX_CONTEXT_TOKENS - MAX_RESPONSE_TOKENS
CHARS_PER_TOKEN == 4
TOKEN_BUFFER == 20
TOKENS_PER_CORRELATION == 180
\* calculate_max_transmissions
WRAPPER_RESERVE == 200
HARD_CAP == 10
\* len() of the strings of build_system_prompt and _get_analysis_template
SYSTEM_PROMPT_LEN == 1005
TEMPLATE_LEN == 189
\* _format_transmissions: text[:150] + "..."
TEXT_CUT == 150

\* _estimate_tokens: int(len(text) / 4.0) + 20
EstimateTokens(length) == (length \div CHARS_PER_TOKEN) + TOKEN_BUFFER

\* calculate_max_transmissions: min((max_response_tokens - 200) // 180, 10);
\* the number of contacts it is given plays no part
calculate_max_transmissions ==
    Min((MAX_RESPONSE_TOKENS - WRAPPER_RESERVE) \div TOKENS_PER_CORRELATION, HARD_CAP)

\* build_context_prompt, lines 342-350
available ==
    max_prompt_tokens - EstimateTokens(SYSTEM_PROMPT_LEN) - EstimateTokens(TEMPLATE_LEN)
adsb_budget == (available * 70) \div 100
tx_budget == available - adsb_budget

\* len(_format_transmissions([tx])): f'[{idx}] {tx.channel_name}: "{text}"'
\* with idx = 0 and the text cut to 150 characters plus "..."
FormatTxLen(tx, name_len) ==
    4 + name_len + 3
      + (IF tx.textlen > TEXT_CUT THEN TEXT_CUT + 3 ELSE tx.textlen) + 1

\* build_context_prompt, lines 367-378: the loop over reversed(transmissions);
\* i is the position the loop has come to, included and tokens what it holds
RECURSIVE SelectTx(_, _, _, _, _)
SelectTx(txs, i, included, tokens, name_len) ==
    IF i = 0 \/ Len(included) >= calculate_max_transmissions
    THEN included
    ELSE LET est == EstimateTokens(FormatTxLen(txs[i], name_len))
         IN  IF tokens + est <= tx_budget
             THEN SelectTx(txs, i - 1, <<txs[i]>> \o included, tokens + est,
                           name_len)
             ELSE included

\* the tx_included of build_context_prompt; _format_transmissions labels its
\* element at position p (from 1) as [p - 1]
TxIncluded(txs, name_len) == SelectTx(txs, Len(txs), <<>>, 0, name_len)

\* the transmission_id values a correlation of the response can carry
TxIds == (0 - 1)..LLM_MAX_TRANSMISSIONS

NoResolution == [happened |-> FALSE, tx |-> 0, labelled |-> 0]

LlmRest ==
    /\ appended = 0
    /\ llm_history = <<>>
    /\ recent_transmissions = <<>>
    /\ tx_included = <<>>
    /\ tx_id = 0
    /\ resolved = NoResolution
    /\ lpc = "idle"

LlmInit ==
    /\ channel_name_len \in NameLens
    /\ LlmRest

LlmParked ==
    /\ channel_name_len = 0
    /\ LlmRest

\* run_llm_correlation, lines 447-463: build the transmission, append it to the
\* channel's history under the lock, cap the history, take the recent ones
LlmAppend ==
    /\ lpc = "idle"
    /\ appended < MaxTransmissions
    /\ \E len \in TextLens :
          LET tx == [id |-> appended + 1, textlen |-> len]
              history == AppendHistory(llm_history, tx)
          IN  /\ llm_history' = history
              /\ recent_transmissions' = LastN(history, LLM_MAX_TRANSMISSIONS)
    /\ appended' = appended + 1
    /\ resolved' = NoResolution
    /\ lpc' = "correlate"
    /\ UNCHANGED <<channel_name_len, tx_included, tx_id>>
    /\ UNCHANGED nonLlm

\* correlate, lines 516-521: build_context_prompt on the submitted batch
LlmBuildPrompt ==
    /\ lpc = "correlate"
    /\ tx_included' = TxIncluded(recent_transmissions, channel_name_len)
    /\ lpc' = "respond"
    /\ UNCHANGED <<channel_name_len, appended, llm_history,
                   recent_transmissions, tx_id, resolved>>
    /\ UNCHANGED nonLlm

\* correlate returns: an error record (run_llm_correlation returns at line
\* 472-474), or a result with a correlation whose transmission_id is an integer
LlmRespond ==
    /\ lpc = "respond"
    /\ \/ /\ lpc' = "idle"
          /\ UNCHANGED tx_id
       \/ \E i \in TxIds :
             /\ tx_id' = i
             /\ lpc' = "resolve"
    /\ UNCHANGED <<channel_name_len, appended, llm_history,
                   recent_transmissions, tx_included, resolved>>
    /\ UNCHANGED nonLlm

\* run_llm_correlation, lines 480-498: `if 0 <= tx_id < len(recent_transmissions):
\* tx = recent_transmissions[tx_id]`.  `labelled` is the transmission the prompt
\* showed as [tx_id], or 0 when the prompt had no such label.
LlmResolve ==
    /\ lpc = "resolve"
    /\ IF 0 <= tx_id /\ tx_id < Len(recent_transmissions)
       THEN resolved' =
                [happened |-> TRUE,
                 tx |-> recent_transmissions[tx_id + 1].id,
                 labelled |-> IF tx_id < Len(tx_included)
                              THEN tx_included[tx_id + 1].id
                              ELSE 0]
       ELSE resolved' = NoResolution
    /\ lpc' = "idle"
    /\ UNCHANGED <<channel_name_len, appended, llm_history,
                   recent_transmissions, tx_included, tx_id>>
    /\ UNCHANGED nonLlm

LlmNext ==
    \/ LlmAppend
    \/ LlmBuildPrompt
    \/ LlmRespond
    \/ LlmResolve

(***************************************************************************)
(* OllamaCorrelator: what correlate does with the response text before it  *)
(* parses it, and _attempt_json_repair.  A text is a sequence of           *)
(* characters.                                                             *)
(***************************************************************************)
\* bound: characters inside a string value of a response
MaxStr == 2

QUOTE == "\""

\* characters a string value can hold without escaping
StringChars == {"a", "{", "}", "[", "]", ",", "'", " "}

StringBodies == UNION {[1..n -> StringChars] : n \in 0..MaxStr}

\* JSON by construction: a string, an array of one string, an object with the
\* one key "s"
JsonString(body) == <<QUOTE>> \o body \o <<QUOTE>>
JsonValues ==
    {JsonString(b) : b \in StringBodies}
        \cup {<<"[">> \o JsonString(b) \o <<"]">> : b \in StringBodies}
JsonObject(v) == <<"{", QUOTE, "s", QUOTE, ":">> \o v \o <<"}">>

\* every text that is a valid JSON object, bare or followed by whitespace
ValidObjects == {JsonObject(v) : v \in JsonValues}
ValidTexts == ValidObjects \cup {o \o <<" ">> : o \in ValidObjects}

\* a response cut off by the token limit: a proper prefix of a valid object
TruncatedTexts ==
    UNION {{SubSeq(o, 1, n) : n \in 1..(Len(o) - 1)} : o \in ValidObjects}

ResponseTexts == ValidTexts \cup TruncatedTexts

\* str.rstrip()
RECURSIVE RStrip(_)
RStrip(t) ==
    IF t # <<>> /\ t[Len(t)] = " " THEN RStrip(SubSeq(t, 1, Len(t) - 1)) ELSE t

\* str.count(c) for a single character
Count(t, c) == Cardinality({i \in DOMAIN t : t[i] = c})

\* str.rfind(pattern): the highest index (from 0) where pattern starts, or -1
RFind(t, pattern) ==
    LET starts == {i \in 0..(Len(t) - Len(pattern)) :
                      SubSeq(t, i + 1, i + Len(pattern)) = pattern}
    IN  IF starts = {} THEN 0 - 1
        ELSE CHOOSE i \in starts : \A k \in starts : k <= i

\* line 650: ['"}', "']", "},", "],", "}"]
Patterns ==
    << <<QUOTE, "}">>, <<"'", "]">>, <<"}", ",">>, <<"]", ",">>, <<"}">> >>

\* lines 647-654: repair_point starts at len(text); each pattern found at a
\* position > 0 lowers it to min(repair_point, pos + len(pattern))
RECURSIVE RepairPoint(_, _, _)
RepairPoint(t, p, repair_point) ==
    IF p > Len(Patterns) THEN repair_point
    ELSE LET pos == RFind(t, Patterns[p])
         IN  RepairPoint(t, p + 1,
                 IF pos > 0 THEN Min(repair_point, pos + Len(Patterns[p]))
                 ELSE repair_point)

\* "c" * n, which is empty for n <= 0
Repeat(c, n) == [i \in 1..n |-> c]

\* _attempt_json_repair, lines 636-665
attempt_json_repair(response) ==
    LET text == RStrip(response)
        open_braces == Count(text, "{") - Count(text, "}")
        open_brackets == Count(text, "[") - Count(text, "]")
        repair_point == RepairPoint(text, 1, Len(text))
        trimmed == IF repair_point < Len(text)
                   THEN SubSeq(text, 1, repair_point)
                   ELSE text
    IN  IF open_braces > 0 \/ open_brackets > 0
        THEN trimmed \o Repeat("]", open_brackets) \o Repeat("}", open_braces)
        ELSE text

\* str.endswith("}")
EndsWithBrace(t) == t # <<>> /\ t[Len(t)] = "}"

RepairRest ==
    /\ jpc = "received"
    /\ repair_called = FALSE
    /\ parse_input = <<>>

\* the response of the LLM call: its text, and whether eval_count reached
\* max_response_tokens - 50
RepairInit ==
    /\ response_text \in ResponseTexts
    /\ hit_limit \in BOOLEAN
    /\ RepairRest

RepairParked ==
    /\ response_text = <<>>
    /\ hit_limit = FALSE
    /\ RepairRest

\* correlate, lines 577-585: repair when the token limit was hit or when the
\* text does not end with "}"; what results goes to _parse_response
CheckTruncation ==
    /\ jpc = "received"
    /\ IF hit_limit \/ ~EndsWithBrace(RStrip(response_text))
       THEN /\ parse_input' = attempt_json_repair(response_text)
            /\ repair_called' = TRUE
       ELSE /\ parse_input' = response_text
            /\ repair_called' = FALSE
    /\ jpc' = "parse"
    /\ UNCHANGED <<response_text, hit_limit>>
    /\ UNCHANGED nonRepair

RepairNext == CheckTruncation

(***************************************************************************)
(* OllamaCorrelator.correlate up to its request: build_context_prompt      *)
(* under a context window and a response reserve, the budget check, the    *)
(* POST.  A contact or a transmission is the length of what is formatted   *)
(* from it.                                                                *)
(***************************************************************************)
\* bounds: contacts and transmissions passed to one call
MaxContacts == 3
MaxBatch == 2

\* (max_context_tokens, max_response_tokens): what OllamaCorrelator.__init__
\* passes, the defaults of RollingContextManager.__init__, and windows whose
\* max_prompt_tokens is 300, 337, 338, 415 and 438, around the 338 tokens at
\* which the system prompt and the template are estimated, and a response
\* reserve of 400 tokens, which leaves room for one correlation
Windows ==
    {<<MAX_CONTEXT_TOKENS, MAX_RESPONSE_TOKENS>>, <<8192, 2048>>,
     <<4396, 4096>>, <<4433, 4096>>, <<4434, 4096>>, <<4511, 4096>>,
     <<4534, 4096>>, <<8192, 400>>}

\* len(_format_adsb([contact])): icao, callsign padded to 8, altitude, heading
\* padded to 3, speed, e.g. "A1B2C3 ----     0ft 000° 0kt" and
\* "A1B2C3 DAL2617  35000ft 270° 450kt"
ContactLens == {28, 34}

ContactLists == UNION {[1..n -> ContactLens] : n \in 0..MaxContacts}
Batches == UNION {[1..n -> [textlen : TextLens]] : n \in 0..MaxBatch}

\* the template's {adsb_data}, {tx_data} and {num_tx}
PLACEHOLDERS_LEN == 28
\* len("(none)")
NONE_LEN == 6

\* build_context_prompt, lines 342-346
AvailableFor(context, response) ==
    (context - response) - EstimateTokens(SYSTEM_PROMPT_LEN)
        - EstimateTokens(TEMPLATE_LEN)

\* int(available * 0.70): int() truncates toward zero
AdsbBudgetOf(avail) ==
    IF avail >= 0 THEN (avail * 70) \div 100 ELSE 0 - (((0 - avail) * 70) \div 100)

TxBudgetOf(avail) == avail - AdsbBudgetOf(avail)

\* calculate_max_transmissions for a response reserve
MaxTxFor(response) ==
    Min((response - WRAPPER_RESERVE) \div TOKENS_PER_CORRELATION, HARD_CAP)

\* lines 358 and 374: `if tokens + estimate <= budget`
NoBudget(tokens, estimate, budget) == TRUE
WithinBudget(tokens, estimate, budget) == tokens + estimate <= budget

\* lines 355-362 and 367-378: the loops over reversed(items); `lens` holds the
\* length of each item formatted alone, i is the position the loop has come
\* to, count and tokens what is included so far; the result is how many of
\* the newest items are included
RECURSIVE IncludedCount(_, _, _, _, _, _)
IncludedCount(lens, i, count, tokens, budget, cap) ==
    IF i = 0 \/ count >= cap
    THEN count
    ELSE LET est == EstimateTokens(lens[i])
         IN  IF WithinBudget(tokens, est, budget)
             THEN IncludedCount(lens, i - 1, count + 1, tokens + est, budget, cap)
             ELSE count

\* lines 359 and 375: included.insert(0, item)
InsertBack(item, included) == Append(included, item)
InsertFront(item, included) == <<item>> \o included

\* the same loops, building the included list: the positions of the items in
\* the input list
RECURSIVE IncludedItems(_, _, _, _, _, _)
IncludedItems(lens, i, included, tokens, budget, cap) ==
    IF i = 0 \/ Len(included) >= cap
    THEN included
    ELSE LET est == EstimateTokens(lens[i])
         IN  IF WithinBudget(tokens, est, budget)
             THEN IncludedItems(lens, i - 1, InsertFront(i, included),
                                tokens + est, budget, cap)
             ELSE included

\* the included list: the loops insert at the front, from the newest item back
Newest(s, n) == SubSeq(s, Len(s) - n + 1, Len(s))

RECURSIVE SumSeq(_)
SumSeq(s) == IF s = <<>> THEN 0 ELSE Head(s) + SumSeq(Tail(s))

\* len("\n".join(lines)) or len("(none)")
JoinedLen(lens) ==
    IF lens = <<>> THEN NONE_LEN ELSE SumSeq(lens) + (Len(lens) - 1)

\* len(str(n)) for the small n that occur
DigitsLen(n) == IF n < 10 THEN 1 ELSE 2

\* the line of a transmission formatted alone, as the budget loop measures it
TxLineLens(txs, name_len) == [i \in DOMAIN txs |-> FormatTxLen(txs[i], name_len)]

\* the lines of _format_transmissions(tx_included): the label is the position
\* in the included list
TxLabelledLens(txs, name_len) ==
    [i \in DOMAIN txs |-> FormatTxLen(txs[i], name_len) - 1 + DigitsLen(i - 1)]

\* len(prompt), line 384: system prompt, "\n\n", the template with its three
\* placeholders replaced
PromptLen(contacts_in, txs_in, name_len) ==
    SYSTEM_PROMPT_LEN + 2 + (TEMPLATE_LEN - PLACEHOLDERS_LEN)
        + JoinedLen(contacts_in)
        + JoinedLen(TxLabelledLens(txs_in, name_len))
        + DigitsLen(Len(txs_in))

\* the prompt with no contact and no transmission in it
BarePromptLen == PromptLen(<<>>, <<>>, 0)

PromptRest ==
    /\ num_adsb = 0
    /\ num_tx = 0
    /\ prompt_tokens = 0
    /\ overflow_logged = FALSE
    /\ request_sent = FALSE
    /\ cpc = "called"
    /\ adsb_included = <<>>
    /\ txs_included = <<>>

PromptInit ==
    /\ \E w \in Windows :
          /\ max_context_tokens = w[1]
          /\ max_response_tokens = w[2]
    /\ adsb_data \in ContactLists
    /\ transmissions \in Batches
    /\ tx_name_len \in NameLens
    /\ PromptRest

PromptParked ==
    /\ max_context_tokens = MAX_CONTEXT_TOKENS
    /\ max_response_tokens = MAX_RESPONSE_TOKENS
    /\ adsb_data = <<>>
    /\ transmissions = <<>>
    /\ tx_name_len = 0
    /\ PromptRest

\* correlate, lines 508-521: return at once on an empty batch, else
\* build_context_prompt and the estimate of the prompt
BuildContextPrompt ==
    /\ cpc = "called"
    /\ IF transmissions = <<>>
       THEN /\ cpc' = "returned"
            /\ UNCHANGED <<num_adsb, num_tx, prompt_tokens, adsb_included,
                           txs_included>>
       ELSE LET avail == AvailableFor(max_context_tokens, max_response_tokens)
                n_adsb == IncludedCount(adsb_data, Len(adsb_data), 0, 0,
                                        AdsbBudgetOf(avail), Len(adsb_data))
                n_tx == IncludedCount(TxLineLens(transmissions, tx_name_len),
                                      Len(transmissions), 0, 0,
                                      TxBudgetOf(avail),
                                      MaxTxFor(max_response_tokens))
            IN  /\ num_adsb' = n_adsb
                /\ num_tx' = n_tx
                /\ adsb_included' =
                       IncludedItems(adsb_data, Len(adsb_data), <<>>, 0,
                                     AdsbBudgetOf(avail), Len(adsb_data))
                /\ txs_included' =
                       IncludedItems(TxLineLens(transmissions, tx_name_len),
                                     Len(transmissions), <<>>, 0,
                                     TxBudgetOf(avail),
                                     MaxTxFor(max_response_tokens))
                /\ prompt_tokens' =
                       EstimateTokens(PromptLen(Newest(adsb_data, n_adsb),
                                                Newest(transmissions, n_tx),
                                                tx_name_len))
                /\ cpc' = "built"
    /\ UNCHANGED <<max_context_tokens, max_response_tokens, adsb_data,
                   transmissions, tx_name_len, overflow_logged, request_sent>>
    /\ UNCHANGED nonPrompt

\* correlate, lines 524-529: the overflow warning; nothing else depends on it
CheckBudget ==
    /\ cpc = "built"
    /\ overflow_logged' =
           (prompt_tokens + max_response_tokens > max_context_tokens)
    /\ cpc' = "checked"
    /\ UNCHANGED <<max_context_tokens, max_response_tokens, adsb_data,
                   transmissions, tx_name_len, num_adsb, num_tx, prompt_tokens,
                   request_sent, adsb_included, txs_included>>
    /\ UNCHANGED nonPrompt

\* correlate, lines 537-555: requests.post
SendRequest ==
    /\ cpc = "checked"
    /\ request_sent' = TRUE
    /\ cpc' = "sent"
    /\ UNCHANGED <<max_context_tokens, max_response_tokens, adsb_data,
                   transmissions, tx_name_len, num_adsb, num_tx, prompt_tokens,
                   overflow_logged, adsb_included, txs_included>>
    /\ UNCHANGED nonPrompt

PromptNext ==
    \/ BuildContextPrompt
    \/ CheckBudget
    \/ SendRequest

(***************************************************************************)
(* OllamaCorrelator.correlate from its request on: the outcome of the LLM  *)
(* call, _parse_response, the alert filter, the handlers of the try        *)
(* block, and what run_llm_correlation does with the result.  A parsed     *)
(* response is described by the shape of its "correlations" and "alerts".  *)
(***************************************************************************)
\* bounds: entries of the response's correlations and alerts
MaxCorrelations == 2
MaxAlerts == 2

\* "alerts" confidence is kept in hundredths: 0.7 is 70
ALERT_THRESHOLD == 70

\* what requests.post / raise_for_status / response.json() do
LlmOutcomes == {"timeout", "refused", "http_error", "bad_body", "ok"}

\* one entry of "correlations": a dict or not; its transmission_id an integer
\* (tid) or something else
CorrItems ==
    [dict : {TRUE}, tid_kind : {"int"}, tid : {0 - 1, 0, 1}]
        \cup {[dict |-> TRUE, tid_kind |-> "text", tid |-> 0],
              [dict |-> FALSE, tid_kind |-> "text", tid |-> 0]}

\* one entry of "alerts": a dict or not; its confidence a number (conf), absent,
\* or a value that cannot be compared with 0.7 (a string, null); pos is the
\* entry's place in the response
AlertKinds ==
    [dict : {TRUE}, conf_kind : {"number"}, conf : {69, ALERT_THRESHOLD}]
        \cup {[dict |-> TRUE, conf_kind |-> "missing", conf |-> 0],
              [dict |-> TRUE, conf_kind |-> "bad", conf |-> 0],
              [dict |-> FALSE, conf_kind |-> "missing", conf |-> 0]}

\* the shapes of a value that should be a list: the key is absent; a list;
\* null, 0 or false, which are falsy and cannot be iterated; "" or {}, which
\* are falsy and iterate over nothing; a non-list that is truthy
Shapes == {"absent", "list", "null", "empty", "truthy"}

CorrValues ==
    {[shape |-> "list", items |-> s] :
        s \in UNION {[1..n -> CorrItems] : n \in 0..MaxCorrelations}}
      \cup {[shape |-> sh, items |-> <<>>] : sh \in Shapes \ {"list"}}

AlertValues ==
    {[shape |-> "list", items |-> s] :
        s \in UNION {[1..n -> AlertKinds] : n \in 0..MaxAlerts}}
      \cup {[shape |-> sh, items |-> <<>>] : sh \in Shapes \ {"list"}}

NoJson ==
    [parses |-> FALSE, error_key |-> FALSE,
     correlations |-> [shape |-> "absent", items |-> <<>>],
     alerts |-> [shape |-> "absent", items |-> <<>>]]

\* a response text that _parse_response cannot parse, or a JSON object, which
\* may itself carry a key "error"
ResponseJsons ==
    {NoJson} \cup [parses : {TRUE}, error_key : BOOLEAN,
                   correlations : CorrValues, alerts : AlertValues]

NoResult == [kind |-> "none", keys |-> {}, correlations |-> <<>>, alerts |-> <<>>]

\* lines 591, 619, 625, 631 and 691: {"error": ..., "raw": ...}
ErrorRecord ==
    [kind |-> "error", keys |-> {"error", "raw"}, correlations |-> <<>>,
     alerts |-> <<>>]

ResponseRest ==
    /\ parsed = NoJson
    /\ exc = "none"
    /\ result = NoResult
    /\ alert_events = <<>>
    /\ xpc = "post"

ResponseInit ==
    /\ llm_outcome \in LlmOutcomes
    /\ batch_len \in 1..MaxBatch
    /\ response_json \in (IF llm_outcome = "ok" THEN ResponseJsons ELSE {NoJson})
    /\ ResponseRest

ResponseParked ==
    /\ llm_outcome = "ok"
    /\ batch_len = 1
    /\ response_json = NoJson
    /\ ResponseRest

\* the exception classes that occur, and for each the classes it is an
\* instance of besides itself
ExcBases(e) ==
    CASE e = "Timeout" -> {"Timeout", "RequestException", "Exception"}
      [] e = "ConnectionError" -> {"ConnectionError", "RequestException", "Exception"}
      [] e = "HTTPError" -> {"HTTPError", "RequestException", "Exception"}
      [] e = "JSONDecodeError" -> {"JSONDecodeError", "ValueError", "Exception"}
      [] e = "AttributeError" -> {"AttributeError", "Exception"}
      [] e = "TypeError" -> {"TypeError", "Exception"}
      [] OTHER -> {e}

\* lines 616-634: the except clauses of correlate, in order
HandlerRequestsOnly(e) ==
    IF "RequestException" \in ExcBases(e) THEN "requests" ELSE "none"
Handler(e) ==
    IF "Timeout" \in ExcBases(e) THEN "timeout"
    ELSE IF "ConnectionError" \in ExcBases(e) THEN "connection"
    ELSE IF "Exception" \in ExcBases(e) THEN "generic"
    ELSE "none"

\* lines 537-564: requests.post, raise_for_status, response.json()
PostRequest ==
    /\ xpc = "post"
    /\ exc' = CASE llm_outcome = "timeout" -> "Timeout"
                [] llm_outcome = "refused" -> "ConnectionError"
                [] llm_outcome = "http_error" -> "HTTPError"
                [] llm_outcome = "bad_body" -> "JSONDecodeError"
                [] OTHER -> "none"
    /\ xpc' = IF llm_outcome = "ok" THEN "parse" ELSE "except"
    /\ UNCHANGED <<llm_outcome, batch_len, response_json, parsed, result,
                   alert_events>>
    /\ UNCHANGED nonResponse

\* the value _parse_response leaves under a key: [] when the key is absent
WithDefault(v) == IF v.shape = "absent" THEN [shape |-> "list", items |-> <<>>] ELSE v

\* lines 585-591 and _parse_response: a text without a JSON object gives the
\* error record, which correlate returns; a parsed object gets the missing
\* keys; an object that has a key "error" is returned as it is
ParseResponse ==
    /\ xpc = "parse"
    /\ IF ~response_json.parses
       THEN /\ result' = ErrorRecord
            /\ xpc' = "returned"
            /\ UNCHANGED parsed
       ELSE /\ parsed' = [response_json EXCEPT
                             !.correlations = WithDefault(@),
                             !.alerts = WithDefault(@)]
            /\ IF response_json.error_key
               THEN /\ result' =
                          [kind |-> "error",
                           keys |-> {"error", "correlations", "alerts", "summary"},
                           correlations |-> WithDefault(response_json.correlations).items,
                           alerts |-> WithDefault(response_json.alerts).items]
                    /\ xpc' = "returned"
               ELSE /\ xpc' = "filter"
                    /\ UNCHANGED result
    /\ UNCHANGED <<llm_outcome, batch_len, response_json, exc, alert_events>>
    /\ UNCHANGED nonResponse

\* line 598: alert.get("confidence", 0) >= 0.7
AboveThreshold(alert) ==
    (IF alert.conf_kind = "missing" THEN 0 ELSE alert.conf) > ALERT_THRESHOLD
PassesThreshold(alert) ==
    (IF alert.conf_kind = "missing" THEN 0 ELSE alert.conf) >= ALERT_THRESHOLD

\* evaluating the condition of line 598 on an entry raises: .get on something
\* that is not a dict, or >= between a string or None and a float
FilterRaises(alert) ==
    IF ~alert.dict THEN "AttributeError"
    ELSE IF alert.conf_kind = "bad" THEN "TypeError"
    ELSE "none"

FirstRaise(items) ==
    IF \E i \in DOMAIN items : FilterRaises(items[i]) # "none"
    THEN FilterRaises(items[CHOOSE i \in DOMAIN items :
                                /\ FilterRaises(items[i]) # "none"
                                /\ \A k \in 1..(i - 1) : FilterRaises(items[k]) = "none"])
    ELSE "none"

\* the entries of a list with their place in it
Numbered(items) == [i \in DOMAIN items |-> [pos |-> i, alert |-> items[i]]]

\* lines 593-602: when "alerts" is a list, keep the entries that pass
FilterAlerts ==
    /\ xpc = "filter"
    /\ IF parsed.alerts.shape = "list" /\ FirstRaise(parsed.alerts.items) # "none"
       THEN /\ exc' = FirstRaise(parsed.alerts.items)
            /\ xpc' = "except"
            /\ UNCHANGED alert_events
       ELSE /\ xpc' = "log"
            /\ UNCHANGED exc
            /\ alert_events' = <<>>
    /\ UNCHANGED <<llm_outcome, batch_len, response_json, parsed, result>>
    /\ UNCHANGED nonResponse

\* the alerts of the result: the filtered list; a non-list value is left as
\* it is and holds no alert
ResultAlerts(alerts) ==
    IF alerts.shape = "list"
    THEN SelectSeq(Numbered(alerts.items), LAMBDA a : PassesThreshold(a.alert))
    ELSE <<>>

\* lines 604-611: c.get(...) over parsed["correlations"], then .get on every
\* alert of a truthy "alerts"
LogRaises(p) ==
    IF p.correlations.shape \in {"null", "truthy"} THEN "TypeError"
    ELSE IF \E i \in DOMAIN p.correlations.items : ~p.correlations.items[i].dict
         THEN "AttributeError"
    ELSE IF p.alerts.shape = "truthy" THEN "AttributeError"
    ELSE "none"

\* lines 604-615: the logging of matches and alerts, then `return parsed`
LogAndReturn ==
    /\ xpc = "log"
    /\ IF LogRaises(parsed) # "none"
       THEN /\ exc' = LogRaises(parsed)
            /\ xpc' = "except"
            /\ UNCHANGED result
       ELSE /\ result' = [kind |-> "ok",
                          keys |-> {"correlations", "alerts", "summary"},
                          correlations |-> parsed.correlations.items,
                          alerts |-> ResultAlerts(parsed.alerts)]
            /\ xpc' = "returned"
            /\ UNCHANGED exc
    /\ UNCHANGED <<llm_outcome, batch_len, response_json, parsed, alert_events>>
    /\ UNCHANGED nonResponse

\* lines 616-634: the handler that matches returns an error record; an
\* exception no clause matches leaves correlate
HandleException ==
    /\ xpc = "except"
    /\ IF Handler(exc) # "none"
       THEN /\ result' = ErrorRecord
            /\ xpc' = "returned"
       ELSE /\ result' = [NoResult EXCEPT !.kind = "raised"]
            /\ xpc' = "raised"
    /\ UNCHANGED <<llm_outcome, batch_len, response_json, parsed, exc,
                   alert_events>>
    /\ UNCHANGED nonResponse

\* run_llm_correlation, lines 472-474 and 500-517: nothing on a result with a
\* key "error"; else one warning and one GUI alert event per alert of the result
ReportAlerts ==
    /\ xpc = "returned"
    /\ alert_events' = IF result.kind = "ok" THEN result.alerts ELSE <<>>
    /\ xpc' = "done"
    /\ UNCHANGED <<llm_outcome, batch_len, response_json, parsed, exc, result>>
    /\ UNCHANGED nonResponse

ResponseNext ==
    \/ PostRequest
    \/ ParseResponse
    \/ FilterAlerts
    \/ LogAndReturn
    \/ HandleException
    \/ ReportAlerts

(***************************************************************************)
(* LiveATCRecorder.record_with_vad of one channel, with the callback of    *)
(* EnhancedLiveATCRecorder.save_audio_segment.  A segment is the run of    *)
(* chunks appended to current_transmission; only its length matters.       *)
(***************************************************************************)
\* bounds: chunks in one segment, segments written
MaxSegmentChunks == 130
MaxSegments == 2

\* utils/config.py
SAMPLE_RATE == 16000
SILENCE_DURATION == 3
MIN_TRANSMISSION_LENGTH == 1
\* record_with_vad: chunk_size = 1024 * 2 bytes, 2 bytes per sample
SAMPLES_PER_CHUNK == 1024

\* int(silence_duration * chunks_per_second), chunks_per_second = 16000 / 1024
silence_chunks_threshold == (SILENCE_DURATION * SAMPLE_RATE) \div SAMPLES_PER_CHUNK

\* a run of chunks lasts less than min_transmission_length
ShorterThanMinimum(chunks) ==
    chunks * SAMPLES_PER_CHUNK < MIN_TRANSMISSION_LENGTH * SAMPLE_RATE

\* a silence of this many chunks lasts 1 s or more
OneSecondOrMore(chunks) == chunks * SAMPLES_PER_CHUNK >= SAMPLE_RATE

NoSegment ==
    [how |-> "none", short |-> FALSE, bridged |-> FALSE, trailing |-> 0]

\* the finally block has not run
NoFinal == [attempted |-> FALSE, chunks |-> 0, handed |-> FALSE]

RecorderInit ==
    /\ recording_transmission = FALSE
    /\ current_transmission = 0
    /\ silence_count = 0
    /\ gap = 0
    /\ had_voice = FALSE
    /\ bridged = FALSE
    /\ split = FALSE
    /\ last_segment = NoSegment
    /\ segments_saved = 0
    /\ rec_pc = "loop"
    /\ ffmpeg_process = "running"
    /\ final_segment = NoFinal

RecorderParked == RecorderInit

\* line 131: silence_count after a voiced chunk
KeepSilenceCount(count) == count
SilenceCountAfterVoice(count) == 0

\* lines 118-130: a chunk with voice is read
ReadVoiced ==
    /\ rec_pc = "loop"
    /\ segments_saved < MaxSegments
    /\ current_transmission < MaxSegmentChunks
    /\ recording_transmission' = TRUE
    /\ current_transmission' =
           (IF recording_transmission THEN current_transmission ELSE 0) + 1
    /\ silence_count' = SilenceCountAfterVoice(silence_count)
    /\ bridged' = IF recording_transmission
                  THEN bridged \/ OneSecondOrMore(gap)
                  ELSE FALSE
    /\ split' = (split \/ (had_voice /\ gap < silence_chunks_threshold
                           /\ ~recording_transmission))
    /\ gap' = 0
    /\ had_voice' = TRUE
    /\ UNCHANGED <<last_segment, segments_saved, rec_pc, ffmpeg_process,
                   final_segment>>
    /\ UNCHANGED nonRecorder

\* lines 118-122 and 132-142: a chunk without voice is read; while recording
\* it is appended and counted, and at the threshold the segment is saved
ReadSilent ==
    /\ rec_pc = "loop"
    /\ segments_saved < MaxSegments
    /\ current_transmission < MaxSegmentChunks
    /\ gap' = IF had_voice /\ gap < silence_chunks_threshold THEN gap + 1 ELSE gap
    /\ IF recording_transmission
       THEN IF silence_count + 1 >= silence_chunks_threshold
            THEN /\ \E ok \in BOOLEAN :
                       /\ IF ok
                          THEN /\ last_segment' =
                                      [how |-> "silence",
                                       short |-> ShorterThanMinimum(current_transmission + 1),
                                       bridged |-> bridged, trailing |-> gap']
                               /\ segments_saved' = segments_saved + 1
                          ELSE UNCHANGED <<last_segment, segments_saved>>
                 /\ recording_transmission' = FALSE
                 /\ current_transmission' = 0
                 /\ silence_count' = 0
                 /\ bridged' = FALSE
            ELSE /\ current_transmission' = current_transmission + 1
                 /\ silence_count' = silence_count + 1
                 /\ UNCHANGED <<recording_transmission, bridged, last_segment,
                                segments_saved>>
       ELSE UNCHANGED <<recording_transmission, current_transmission,
                        silence_count, bridged, last_segment, segments_saved>>
    /\ UNCHANGED <<had_voice, split, rec_pc, ffmpeg_process, final_segment>>
    /\ UNCHANGED nonRecorder

\* line 148: the finally block saves when a segment is in progress
NeverSaveFinal(recording, chunks) == FALSE
SaveFinal(recording, chunks) == recording /\ chunks > 0

\* lines 113-120 and 145-158: the read returns nothing (the stream ended or
\* the decoder was terminated), the duration is over, or the read raises.
\* The finally block saves the segment in progress (the callback gets the
\* file unless writing it failed) and terminates the decoder: terminate(),
\* wait(timeout=2), and kill() when the wait timed out
StreamEnds ==
    /\ rec_pc = "loop"
    /\ IF SaveFinal(recording_transmission, current_transmission)
       THEN \E ok \in BOOLEAN :
               /\ final_segment' = [attempted |-> TRUE,
                                    chunks |-> current_transmission,
                                    handed |-> ok]
               /\ IF ok
                  THEN /\ last_segment' =
                              [how |-> "end",
                               short |-> ShorterThanMinimum(current_transmission),
                               bridged |-> bridged, trailing |-> gap]
                       /\ segments_saved' = segments_saved + 1
                  ELSE UNCHANGED <<last_segment, segments_saved>>
       ELSE UNCHANGED <<last_segment, segments_saved, final_segment>>
    /\ \E exited \in BOOLEAN :
          ffmpeg_process' = IF exited THEN "terminated" ELSE "killed"
    /\ rec_pc' = "ended"
    /\ UNCHANGED <<recording_transmission, current_transmission, silence_count,
                   gap, had_voice, bridged, split>>
    /\ UNCHANGED nonRecorder

RecorderNext ==
    \/ ReadVoiced
    \/ ReadSilent
    \/ StreamEnds

(***************************************************************************)
(* MultiChannelATCMonitor.stop_monitoring with the time its steps take.    *)
(* The only step that blocks is worker.join(timeout=5) inside              *)
(* TranscriptionWorkerPool.stop; a worker leaves its loop when the job,    *)
(* callback or model load it is in has ended.                              *)
(***************************************************************************)
\* bound: seconds of work a worker can have left when stop is called
MaxBusy == 7

\* TranscriptionWorkerPool.stop, line 156
JOIN_TIMEOUT == 5

StopInit ==
    /\ stop_clock = 0
    /\ busy_left = [w \in Workers |-> 0]
    /\ joined = 0
    /\ decoder = [c \in Channels |-> "running"]
    /\ terminated_at = 0
    /\ stats_printed = FALSE
    /\ kpc = "monitoring"

StopParked == StopInit

\* worker.join(timeout=5) called at time t on a worker that exits at time
\* `exits`: the time at which join returns
JoinReturns(t, exits) ==
    IF exits <= t THEN t
    ELSE IF exits <= t + JOIN_TIMEOUT THEN exits ELSE t + JOIN_TIMEOUT

\* stop_monitoring, lines 559-564, and stop(), lines 148-152: the flags are
\* cleared and one None per worker is queued; each worker is idle (0) or has
\* some seconds of transcription, callback or model load left
StopCalled ==
    /\ kpc = "monitoring"
    /\ \E b \in [Workers -> 0..MaxBusy] : busy_left' = b
    /\ kpc' = "join"
    /\ UNCHANGED <<stop_clock, joined, decoder, terminated_at, stats_printed>>
    /\ UNCHANGED nonStop

\* stop(), lines 155-156: the next worker is joined
JoinWorker ==
    /\ kpc = "join"
    /\ joined < NumWorkers
    /\ stop_clock' = JoinReturns(stop_clock, busy_left[joined + 1])
    /\ joined' = joined + 1
    /\ UNCHANGED <<busy_left, decoder, terminated_at, stats_printed, kpc>>
    /\ UNCHANGED nonStop

\* stop_monitoring, lines 566-569: after stop() has returned every channel's
\* ffmpeg process is sent SIGTERM
TerminateDecoders ==
    /\ kpc = "join"
    /\ joined = NumWorkers
    /\ decoder' = [c \in Channels |-> "sigterm"]
    /\ terminated_at' = stop_clock
    /\ kpc' = "print"
    /\ UNCHANGED <<stop_clock, busy_left, joined, stats_printed>>
    /\ UNCHANGED nonStop

\* stop_monitoring, line 571
PrintStatistics ==
    /\ kpc = "print"
    /\ stats_printed' = TRUE
    /\ kpc' = "stopped"
    /\ UNCHANGED <<stop_clock, busy_left, joined, decoder, terminated_at>>
    /\ UNCHANGED nonStop

StopNext ==
    \/ StopCalled
    \/ JoinWorker
    \/ TerminateDecoders
    \/ PrintStatistics

(***************************************************************************)
(* The statistics counters while each worker runs one transcription        *)
(* callback.  `x += 1` on a dict entry reads the entry, adds, and writes   *)
(* it back; no lock is held, so another thread can run between the read    *)
(* and the write.                                                          *)
(***************************************************************************)
\* transmissions_transcribed and non_transponder_alerts of the channel
\* (MultiChannelATCMonitor.stats), API Calls and Errors (OllamaCorrelator.stats)
Counters == {"transmissions_transcribed", "API Calls", "Errors",
             "non_transponder_alerts"}

CountersInit ==
    /\ stats = [c \in Counters |-> 0]
    /\ performed = [c \in Counters |-> 0]
    /\ reg = [w \in Workers |-> 0]
    /\ cb_pc = [w \in Workers |-> [at |-> "transmissions_transcribed", read |-> FALSE]]

CountersParked == CountersInit

\* the += 1 a callback can reach after the one on counter c: transcription_callback
\* line 387, then correlate line 513, then one of the error paths (588, 618,
\* 624, 630) or, back in run_llm_correlation, line 509 for an alert, or none
FollowingCounters(c) ==
    CASE c = "transmissions_transcribed" -> {"API Calls"}
      [] c = "API Calls" -> {"Errors", "non_transponder_alerts", "done"}
      [] OTHER -> {"done"}

\* the read half of `stats[k] += 1`
CounterRead(w) ==
    /\ cb_pc[w].at \in Counters
    /\ ~cb_pc[w].read
    /\ reg' = [reg EXCEPT ![w] = stats[cb_pc[w].at]]
    /\ cb_pc' = [cb_pc EXCEPT ![w].read = TRUE]
    /\ UNCHANGED <<stats, performed>>
    /\ UNCHANGED nonCounters

\* the write half of `stats[k] += 1`, and the callback running on to its next
\* counter
CounterWrite(w) ==
    /\ cb_pc[w].at \in Counters
    /\ cb_pc[w].read
    /\ stats' = [stats EXCEPT ![cb_pc[w].at] = reg[w] + 1]
    /\ performed' = [performed EXCEPT ![cb_pc[w].at] = @ + 1]
    /\ \E nxt \in FollowingCounters(cb_pc[w].at) :
          cb_pc' = [cb_pc EXCEPT ![w] = [at |-> nxt, read |-> FALSE]]
    /\ UNCHANGED reg
    /\ UNCHANGED nonCounters

CountersNext ==
    \/ \E w \in Workers : CounterRead(w)
    \/ \E w \in Workers : CounterWrite(w)

(***************************************************************************)
(* The threads that can reach ADSBTracker.update_aircraft_positions: the   *)
(* poller (adsb_update_worker) and the thread that handles a finished      *)
(* transcription, in the multi-channel monitor (core/multi_channel_monitor)*)
(* and in the single-channel monitor (core/monitor.py).                    *)
(***************************************************************************)
\* bound: assignments to current_aircraft
MaxWrites == 6

MonitorKinds == {"multi_channel", "single_channel"}

\* what get_aircraft_in_area does for update_aircraft_positions: it returns
\* a list (empty on a failed poll) or raises
AreaOutcomes == {"list", "raise"}

SnapshotRest ==
    /\ snap_writes = 0
    /\ written_by = {}
    /\ refreshed_by = {}
    /\ pl_pc = "loop"
    /\ tr_pc = "idle"

SnapshotInit ==
    /\ monitor_kind \in MonitorKinds
    /\ SnapshotRest

SnapshotParked ==
    /\ monitor_kind = "multi_channel"
    /\ SnapshotRest

\* adsb_update_worker: the poller calls update_aircraft_positions
PollerRefresh ==
    /\ pl_pc = "loop"
    /\ snap_writes < MaxWrites
    /\ refreshed_by' = refreshed_by \cup {"poller"}
    /\ pl_pc' = "update"
    /\ UNCHANGED <<monitor_kind, snap_writes, written_by, tr_pc>>
    /\ UNCHANGED nonSnapshot

\* update_aircraft_positions, lines 319-325, on the poller thread: the fetch,
\* then the assignment of a new dict; then the poller sleeps
PollerUpdate ==
    /\ pl_pc = "update"
    /\ \E o \in AreaOutcomes :
          IF o = "list"
          THEN /\ snap_writes' = snap_writes + 1
               /\ written_by' = written_by \cup {"poller"}
          ELSE UNCHANGED <<snap_writes, written_by>>
    /\ pl_pc' = "loop"
    /\ UNCHANGED <<monitor_kind, refreshed_by, tr_pc>>
    /\ UNCHANGED nonSnapshot

\* process_analysis of core/monitor.py, lines 242-246: with ADS-B enabled the
\* transcript goes to ATCCorrelator.correlate_transcript.  The multi-channel
\* transcription_callback has no such call (lines 409-412 are commented out).
CallsCorrelateTranscript(kind) == kind = "single_channel"

\* a transcription with text has been produced and is handed on: to
\* process_analysis, which calls correlate_transcript, whose first statement
\* is update_aircraft_positions (correlator.py line 71); or straight to the
\* LLM correlation
TranscriptReady ==
    /\ tr_pc = "idle"
    /\ snap_writes < MaxWrites
    /\ IF CallsCorrelateTranscript(monitor_kind)
       THEN /\ refreshed_by' = refreshed_by \cup {"transcription"}
            /\ tr_pc' = "update"
       ELSE /\ tr_pc' = "llm"
            /\ UNCHANGED refreshed_by
    /\ UNCHANGED <<monitor_kind, snap_writes, written_by, pl_pc>>
    /\ UNCHANGED nonSnapshot

\* update_aircraft_positions on the transcription thread; when the fetch
\* raises, transcription_worker's handler ends the processing of the file
TranscriptionUpdate ==
    /\ tr_pc = "update"
    /\ \E o \in AreaOutcomes :
          IF o = "list"
          THEN /\ snap_writes' = snap_writes + 1
               /\ written_by' = written_by \cup {"transcription"}
               /\ tr_pc' = "llm"
          ELSE /\ tr_pc' = "idle"
               /\ UNCHANGED <<snap_writes, written_by>>
    /\ UNCHANGED <<monitor_kind, refreshed_by, pl_pc>>
    /\ UNCHANGED nonSnapshot

\* run_llm_correlation: reads current_aircraft, writes nothing to it
RunLlmCorrelation ==
    /\ tr_pc = "llm"
    /\ tr_pc' = "idle"
    /\ UNCHANGED <<monitor_kind, snap_writes, written_by, refreshed_by, pl_pc>>
    /\ UNCHANGED nonSnapshot

SnapshotNext ==
    \/ PollerRefresh
    \/ PollerUpdate
    \/ TranscriptReady
    \/ TranscriptionUpdate
    \/ RunLlmCorrelation

(***************************************************************************)
(* The GUI subscriber: process_updates takes one message from the queue,   *)
(* dispatches it, and flushes pending transmissions to the UI.             *)
(* Transmission events are numbered in the order they were published.      *)
(***************************************************************************)
\* bound: messages published on the queue
MaxEvents == 4

\* the caps of __init__ (100, 20, 10), and small ones so that they bind
PendingCaps == {1, 100}
BatchCaps == {1, 20}
DisplayCaps == {2, 10}

OtherCommand == 0

GuiRest ==
    /\ update_queue = <<>>
    /\ published = 0
    /\ pending_transmissions = <<>>
    /\ displayed_transcripts = <<>>
    /\ applied = <<>>
    /\ overlay_initialized = FALSE

GuiInit ==
    /\ max_pending_transmissions \in PendingCaps
    /\ max_batch_size \in BatchCaps
    /\ max_displayed_transcripts \in DisplayCaps
    /\ GuiRest

GuiParked ==
    /\ max_pending_transmissions = 100
    /\ max_batch_size = 20
    /\ max_displayed_transcripts = 10
    /\ GuiRest

\* gui_queue.put(("atc_transmission", ...)) by a worker's callback
PublishTransmission ==
    /\ Len(update_queue) + published < MaxEvents
    /\ published' = published + 1
    /\ update_queue' = Append(update_queue, published + 1)
    /\ UNCHANGED <<pending_transmissions, displayed_transcripts, applied,
                   overlay_initialized, max_pending_transmissions,
                   max_batch_size, max_displayed_transcripts>>
    /\ UNCHANGED nonGui

\* gui_queue.put of any other command (worker_status, stats_update, ...)
PublishOther ==
    /\ Len(update_queue) + published < MaxEvents
    /\ Len(update_queue) < 2
    /\ update_queue' = Append(update_queue, OtherCommand)
    /\ UNCHANGED <<published, pending_transmissions, displayed_transcripts,
                   applied, overlay_initialized, max_pending_transmissions,
                   max_batch_size, max_displayed_transcripts>>
    /\ UNCHANGED nonGui

\* the overlay is injected (line 938) or lost on a reload (lines 72, 138)
OverlayChange ==
    /\ overlay_initialized' = ~overlay_initialized
    /\ UNCHANGED <<update_queue, published, pending_transmissions,
                   displayed_transcripts, applied, max_pending_transmissions,
                   max_batch_size, max_displayed_transcripts>>
    /\ UNCHANGED nonGui

\* over the cap, the entries appended last are the ones dropped
EnqueueKeepOldest(pending, data, cap) ==
    SubSeq(Append(pending, data), 1, Min(Len(pending) + 1, Max(cap, 0)))

\* _enqueue_transmission, lines 982-986: append, then drop from the left
\* while over the cap
Enqueue(pending, data, cap) == LastN(Append(pending, data), Max(cap, 0))

\* _flush_pending_transmissions, lines 997-999: popleft until the batch is
\* full or the deque is empty
TakeBatchReversed(pending, size) ==
    [i \in 1..Min(Len(pending), size) |-> pending[Min(Len(pending), size) + 1 - i]]
TakeBatch(pending, size) == SubSeq(pending, 1, Min(Len(pending), size))

\* what the flush leaves in the deque
AfterBatch(pending, size) ==
    SubSeq(pending, Min(Len(pending), size) + 1, Len(pending))

\* _apply_transmission_batch, lines 1015-1022: append the batch, then pop(0)
\* while over the cap
Display(shown, batch, cap) ==
    IF Len(shown \o batch) > cap
    THEN SubSeq(shown \o batch, Len(shown \o batch) - cap + 1, Len(shown \o batch))
    ELSE shown \o batch

\* one iteration of process_updates, lines 954-980: get with a timeout, the
\* dispatch, then the flush.  `due` says whether ui_flush_interval has passed
\* since the last flush; `still` whether the overlay is still injected when
\* _apply_transmission_batch tests it again (line 1011).
ProcessUpdates ==
    \E due \in BOOLEAN, still \in BOOLEAN :
       LET got == update_queue # <<>>
           message == IF got THEN Head(update_queue) ELSE OtherCommand
           pend == IF got /\ message # OtherCommand
                   THEN Enqueue(pending_transmissions, message,
                                max_pending_transmissions)
                   ELSE pending_transmissions
           flush == pend # <<>> /\ overlay_initialized /\ due
           batch == TakeBatch(pend, max_batch_size)
       IN /\ got \/ flush
          /\ update_queue' = IF got THEN Tail(update_queue) ELSE update_queue
          /\ IF flush
             THEN /\ pending_transmissions' = AfterBatch(pend, max_batch_size)
                  /\ IF still
                     THEN /\ applied' = applied \o batch
                          /\ displayed_transcripts' =
                                 Display(displayed_transcripts, batch,
                                         max_displayed_transcripts)
                          /\ UNCHANGED overlay_initialized
                     ELSE /\ overlay_initialized' = FALSE
                          /\ UNCHANGED <<applied, displayed_transcripts>>
             ELSE /\ pending_transmissions' = pend
                  /\ UNCHANGED <<applied, displayed_transcripts,
                                 overlay_initialized>>
          /\ UNCHANGED <<published, max_pending_transmissions, max_batch_size,
                         max_displayed_transcripts>>
          /\ UNCHANGED nonGui

GuiNext ==
    \/ PublishTransmission
    \/ PublishOther
    \/ OverlayChange
    \/ ProcessUpdates

(***************************************************************************)
(* OpenSkySource.get_aircraft_in_area from the decoded response on, and    *)
(* ADSBTracker.update_aircraft_positions (tracking/adsb_tracker.py).  A    *)
(* state vector is described by its icao24, by what its fields are like,   *)
(* and by the distance of its position from the reference point, which     *)
(* calculate_distance_and_bearing computes.                                *)
(***************************************************************************)
\* utils/config.py: SEARCH_RADIUS_NM
SEARCH_RADIUS_NM == 50

\* distances of the positions in a response, in nautical miles
Distances == {SEARCH_RADIUS_NM - 1, SEARCH_RADIUS_NM, SEARCH_RADIUS_NM + 1}

\* "valid": every field has its type; "no_position": longitude or latitude is
\* null; "malformed": a field has the wrong type or the vector is too short,
\* so that building the Aircraft raises TypeError or IndexError
VectorKinds == {"valid", "no_position", "malformed"}

StateVectors ==
    [icao24 : Icaos, kind : {"valid"}, dist : Distances]
    \cup [icao24 : Icaos, kind : {"no_position", "malformed"}, dist : {0}]

Responses == UNION {[1..n -> StateVectors] : n \in 0..MaxStates}

EmptyDict == [k \in {} |-> 0]

AreaInit ==
    /\ area_response = <<>>
    /\ area_pc = "idle"
    /\ area_result = "none"
    /\ snapshot = EmptyDict

AreaParked == AreaInit

\* line 248: if aircraft.distance_from_airport <= radius_nm
AnyDistance(dist) == TRUE
InRadius(dist) == dist <= SEARCH_RADIUS_NM

\* lines 231-249: the loop over data['states']; an exception inside the loop
\* is not a RequestException and leaves get_aircraft_in_area
RECURSIVE ParseStates(_, _)
ParseStates(states, aircraft_list) ==
    IF states = <<>> THEN [raised |-> FALSE, list |-> aircraft_list]
    ELSE IF Head(states).kind = "malformed"
         THEN [raised |-> TRUE, list |-> <<>>]
         ELSE IF Head(states).kind = "valid" /\ InRadius(Head(states).dist)
              THEN ParseStates(Tail(states),
                               Append(aircraft_list,
                                      [icao24 |-> Head(states).icao24,
                                       dist |-> Head(states).dist]))
              ELSE ParseStates(Tail(states), aircraft_list)

\* line 324: {ac.icao24: ac for ac in aircraft_list}; a later aircraft with
\* the same icao24 replaces the earlier one
DictByIcao(aircraft_list) ==
    [k \in {aircraft_list[i].icao24 : i \in DOMAIN aircraft_list} |->
        aircraft_list[CHOOSE i \in DOMAIN aircraft_list :
            /\ aircraft_list[i].icao24 = k
            /\ \A j \in DOMAIN aircraft_list :
                  aircraft_list[j].icao24 = k => j <= i]]

\* lines 214-228: the request; it fails (RequestException: [] is returned and
\* assigned) or it brings a response
AreaRequest ==
    /\ area_pc = "idle"
    /\ \/ /\ area_response' = <<>>
          /\ area_result' = "neterr"
          /\ snapshot' = EmptyDict
          /\ UNCHANGED area_pc
       \/ /\ \E r \in Responses : area_response' = r
          /\ area_pc' = "parse"
          /\ UNCHANGED <<area_result, snapshot>>
    /\ UNCHANGED nonArea

\* lines 228-249 and 319-325: the response is parsed and the list assigned;
\* when parsing raises, update_aircraft_positions is left before the
\* assignment and adsb_update_worker's handler logs the error
AreaParse ==
    /\ area_pc = "parse"
    /\ IF ParseStates(area_response, <<>>).raised
       THEN /\ area_result' = "raised"
            /\ UNCHANGED snapshot
       ELSE /\ area_result' = "ok"
            /\ snapshot' = DictByIcao(ParseStates(area_response, <<>>).list)
    /\ area_pc' = "idle"
    /\ UNCHANGED area_response
    /\ UNCHANGED nonArea

AreaNext ==
    \/ AreaRequest
    \/ AreaParse

(***************************************************************************)
(* SpecHistory: the rolling history of each channel, under several         *)
(* configured batch sizes.                                                 *)
(***************************************************************************)
MaxConfigured == 2
MaxAppends == 8

\* the values utils/config.py can give LLM_MAX_TRANSMISSIONS
ConfiguredTransmissions == 0..MaxConfigured
HistoryChannels == {1, 2}

\* ContextBuilder.__init__, line 404, reached from
\* OllamaLLMCorrelator(max_transmissions=LLM_MAX_TRANSMISSIONS)
max_tx(configured) == configured

HistoryInit ==
    /\ llm_max_transmissions \in ConfiguredTransmissions
    /\ history_of = [c \in HistoryChannels |-> <<>>]
    /\ appended_to = [c \in HistoryChannels |-> <<>>]
    /\ recent_batch = <<>>
    /\ last_channel = 0

HistoryParked ==
    /\ llm_max_transmissions = 0
    /\ history_of = [c \in HistoryChannels |-> <<>>]
    /\ appended_to = [c \in HistoryChannels |-> <<>>]
    /\ recent_batch = <<>>
    /\ last_channel = 0

\* the oldest entries instead of the newest
KeepOldest(history, cap) ==
    IF Len(history) > cap THEN SubSeq(history, 1, cap) ELSE history

\* lines 460-462: if len(history) > max_llm_history, keep history[-max_llm_history:]
CapHistory(history, cap) ==
    IF Len(history) > cap THEN LastN(history, cap) ELSE history

\* run_llm_correlation, lines 457-463, under transmission_lock: append the
\* transmission to the channel's history, cap the history, take the batch
HistoryAppend ==
    /\ \E c \in HistoryChannels :
          /\ Len(appended_to[c]) + Len(appended_to[3 - c]) < MaxAppends
          /\ LET tx == Len(appended_to[c]) + Len(appended_to[3 - c]) + 1
                 history == CapHistory(Append(history_of[c], tx),
                                MaxLlmHistoryFor(llm_max_transmissions))
             IN  /\ history_of' = [history_of EXCEPT ![c] = history]
                 /\ appended_to' = [appended_to EXCEPT ![c] = Append(@, tx)]
                 /\ recent_batch' = LastN(history, max_tx(llm_max_transmissions))
          /\ last_channel' = c
    /\ UNCHANGED llm_max_transmissions
    /\ UNCHANGED nonHistory

HistoryNext == HistoryAppend

(***************************************************************************)
(* The background threads start_monitoring starts next to the pool: the    *)
(* ADS-B updater and the stats updater.  Both loop while is_monitoring.    *)
(***************************************************************************)
ThreadsInit ==
    /\ adsb_thread = "test"
    /\ stats_thread = "test"

ThreadsParked == ThreadsInit

\* a loop that never looks at its flag
LoopForever(flag) == TRUE

\* lines 524 and 541: while self.is_monitoring
LoopGoesOn(flag) == flag

\* adsb_update_worker, line 524; the thread exists once start_monitoring has
\* started it (lines 284-287, after is_monitoring = True)
AdsbLoopTest ==
    /\ spc # "new"
    /\ adsb_thread = "test"
    /\ adsb_thread' = IF LoopGoesOn(is_monitoring) THEN "update" ELSE "exited"
    /\ UNCHANGED stats_thread
    /\ UNCHANGED nonThreads

\* lines 525-536: update_aircraft_positions and the GUI events; whether it
\* returns or raises, the thread sleeps next (update_interval, or 60 s)
AdsbUpdate ==
    /\ adsb_thread = "update"
    /\ adsb_thread' = "sleep"
    /\ UNCHANGED stats_thread
    /\ UNCHANGED nonThreads

\* time.sleep returns
AdsbWake ==
    /\ adsb_thread = "sleep"
    /\ adsb_thread' = "test"
    /\ UNCHANGED stats_thread
    /\ UNCHANGED nonThreads

\* stats_update_worker, line 541; the thread is started at lines 280-281
StatsLoopTest ==
    /\ spc # "new"
    /\ stats_thread = "test"
    /\ stats_thread' = IF LoopGoesOn(is_monitoring) THEN "sample" ELSE "exited"
    /\ UNCHANGED adsb_thread
    /\ UNCHANGED nonThreads

\* lines 542-555: qsize, the stats_update event, time.sleep(1); an exception
\* is logged and the loop goes on
StatsSample ==
    /\ stats_thread = "sample"
    /\ stats_thread' = "test"
    /\ UNCHANGED adsb_thread
    /\ UNCHANGED nonThreads

(***************************************************************************)
(* stop_monitoring, called by the window-closed handler and by the finally *)
(* block of run_webview_app, against the recorder threads of a running     *)
(* monitor.                                                                *)
(***************************************************************************)
\* gui/map_app_webview.py: on_closed (lines 77-82) and run_webview_app's
\* finally block (lines 1359-1360) both call stop_monitoring
StopCallers == {"on_closed", "finally"}
RecorderChannels == {1, 2}

\* the state once start_monitoring has returned: every recorder thread is
\* started and has yet to spawn its decoder
RaceRest ==
    /\ stop_pc = [t \in StopCallers |-> "idle"]
    /\ pool_stops = 0
    /\ terminate_calls = [c \in RecorderChannels |-> 0]
    /\ statistics_prints = 0
    /\ recorder_pc = [c \in RecorderChannels |-> "spawn"]
    /\ ffmpeg = [c \in RecorderChannels |-> "none"]
    /\ in_flight = [c \in RecorderChannels |-> FALSE]
    /\ wav_written = [c \in RecorderChannels |-> 0]
    /\ wav_submitted = [c \in RecorderChannels |-> 0]

RaceInit ==
    /\ monitoring = TRUE
    /\ RaceRest

RaceParked ==
    /\ monitoring = FALSE
    /\ RaceRest

\* stop_monitoring, line 559: if self.is_monitoring
StopTest(t) ==
    /\ stop_pc[t] = "idle"
    /\ stop_pc' = [stop_pc EXCEPT ![t] = IF monitoring THEN "mark" ELSE "done"]
    /\ UNCHANGED <<monitoring, pool_stops, terminate_calls, statistics_prints,
                   recorder_pc, ffmpeg, in_flight, wav_written, wav_submitted>>
    /\ UNCHANGED nonRace

\* line 560: self.is_monitoring = False
StopMark(t) ==
    /\ stop_pc[t] = "mark"
    /\ monitoring' = FALSE
    /\ stop_pc' = [stop_pc EXCEPT ![t] = "pool"]
    /\ UNCHANGED <<pool_stops, terminate_calls, statistics_prints,
                   recorder_pc, ffmpeg, in_flight, wav_written, wav_submitted>>
    /\ UNCHANGED nonRace

\* line 564: self.transcription_pool.stop()
StopPool(t) ==
    /\ stop_pc[t] = "pool"
    /\ pool_stops' = pool_stops + 1
    /\ stop_pc' = [stop_pc EXCEPT ![t] = "terminate"]
    /\ UNCHANGED <<monitoring, terminate_calls, statistics_prints,
                   recorder_pc, ffmpeg, in_flight, wav_written, wav_submitted>>
    /\ UNCHANGED nonRace

\* lines 567-569: terminate() on every recorder whose ffmpeg_process is set;
\* a Popen object stays set after the process has ended
StopTerminate(t) ==
    /\ stop_pc[t] = "terminate"
    /\ ffmpeg' = [c \in RecorderChannels |->
                     IF ffmpeg[c] = "none" THEN "none" ELSE "terminated"]
    /\ terminate_calls' = [c \in RecorderChannels |->
                              IF ffmpeg[c] = "none" THEN terminate_calls[c]
                              ELSE terminate_calls[c] + 1]
    /\ stop_pc' = [stop_pc EXCEPT ![t] = "print"]
    /\ UNCHANGED <<monitoring, pool_stops, statistics_prints, recorder_pc,
                   in_flight, wav_written, wav_submitted>>
    /\ UNCHANGED nonRace

\* line 571: self.print_statistics()
StopPrint(t) ==
    /\ stop_pc[t] = "print"
    /\ statistics_prints' = statistics_prints + 1
    /\ stop_pc' = [stop_pc EXCEPT ![t] = "done"]
    /\ UNCHANGED <<monitoring, pool_stops, terminate_calls, recorder_pc,
                   ffmpeg, in_flight, wav_written, wav_submitted>>
    /\ UNCHANGED nonRace

\* record_with_vad, lines 93-95, and capture_stream_audio, lines 41-53: the
\* recorder thread spawns its decoder; when Popen fails the thread returns
RecorderSpawn(c) ==
    /\ recorder_pc[c] = "spawn"
    /\ \E spawned \in BOOLEAN :
          IF spawned
          THEN /\ ffmpeg' = [ffmpeg EXCEPT ![c] = "running"]
               /\ recorder_pc' = [recorder_pc EXCEPT ![c] = "loop"]
          ELSE /\ recorder_pc' = [recorder_pc EXCEPT ![c] = "ended"]
               /\ UNCHANGED ffmpeg
    /\ UNCHANGED <<monitoring, stop_pc, pool_stops, terminate_calls,
                   statistics_prints, in_flight, wav_written, wav_submitted>>
    /\ UNCHANGED nonRace

\* recording_callback, lines 350-351 and 375-379: a segment handed over while
\* the monitor is not monitoring is not submitted
SubmittedAfterCallback(flag, count) == IF flag THEN count + 1 ELSE count

\* record_with_vad, lines 124-130: voice begins a segment
VoiceBegins(c) ==
    /\ recorder_pc[c] = "loop"
    /\ ffmpeg[c] = "running"
    /\ ~in_flight[c]
    /\ wav_written[c] < MaxSegments
    /\ in_flight' = [in_flight EXCEPT ![c] = TRUE]
    /\ UNCHANGED <<monitoring, stop_pc, pool_stops, terminate_calls,
                   statistics_prints, recorder_pc, ffmpeg, wav_written,
                   wav_submitted>>
    /\ UNCHANGED nonRace

\* lines 132-142 and EnhancedLiveATCRecorder.save_audio_segment: enough
\* silence ends the segment; its WAV is written and handed to the callback
SilenceEndsSegment(c) ==
    /\ recorder_pc[c] = "loop"
    /\ ffmpeg[c] = "running"
    /\ in_flight[c]
    /\ in_flight' = [in_flight EXCEPT ![c] = FALSE]
    /\ wav_written' = [wav_written EXCEPT ![c] = @ + 1]
    /\ wav_submitted' = [wav_submitted EXCEPT ![c] =
                            SubmittedAfterCallback(monitoring, @)]
    /\ UNCHANGED <<monitoring, stop_pc, pool_stops, terminate_calls,
                   statistics_prints, recorder_pc, ffmpeg>>
    /\ UNCHANGED nonRace

\* lines 117-120: stream.read returns no data, because the decoder was
\* terminated or because the stream ended on its own
StreamEnded(c) ==
    /\ recorder_pc[c] = "loop"
    /\ recorder_pc' = [recorder_pc EXCEPT ![c] = "finally"]
    /\ UNCHANGED <<monitoring, stop_pc, pool_stops, terminate_calls,
                   statistics_prints, ffmpeg, in_flight, wav_written,
                   wav_submitted>>
    /\ UNCHANGED nonRace

\* the finally block, lines 146-158: the segment in flight is written and
\* handed to the callback; then the recorder terminates its decoder itself
RecorderFinally(c) ==
    /\ recorder_pc[c] = "finally"
    /\ IF in_flight[c]
       THEN /\ wav_written' = [wav_written EXCEPT ![c] = @ + 1]
            /\ wav_submitted' = [wav_submitted EXCEPT ![c] =
                                    SubmittedAfterCallback(monitoring, @)]
       ELSE UNCHANGED <<wav_written, wav_submitted>>
    /\ in_flight' = [in_flight EXCEPT ![c] = FALSE]
    /\ ffmpeg' = [ffmpeg EXCEPT ![c] = "terminated"]
    /\ recorder_pc' = [recorder_pc EXCEPT ![c] = "ended"]
    /\ UNCHANGED <<monitoring, stop_pc, pool_stops, terminate_calls,
                   statistics_prints>>
    /\ UNCHANGED nonRace

RaceNext ==
    \/ \E t \in StopCallers : StopTest(t)
    \/ \E t \in StopCallers : StopMark(t)
    \/ \E t \in StopCallers : StopPool(t)
    \/ \E t \in StopCallers : StopTerminate(t)
    \/ \E t \in StopCallers : StopPrint(t)
    \/ \E c \in RecorderChannels : RecorderSpawn(c)
    \/ \E c \in RecorderChannels : VoiceBegins(c)
    \/ \E c \in RecorderChannels : SilenceEndsSegment(c)
    \/ \E c \in RecorderChannels : StreamEnded(c)
    \/ \E c \in RecorderChannels : RecorderFinally(c)

(***************************************************************************)
(* run_llm_correlation on several workers: transmission_lock, the history  *)
(* list of one channel and the batch each worker passes to correlate.      *)
(* Lists are objects: an append changes the object every reference sees.   *)
(***************************************************************************)
MaxLockAppends == 4

LockWorkers == {1, 2}

LockRest ==
    /\ transmission_lock = 0
    /\ heap = << <<>> >>
    /\ history_ref = 1
    /\ lock_pc = [w \in LockWorkers |-> "idle"]
    /\ batch_ref = [w \in LockWorkers |-> 0]
    /\ batch_sent = [w \in LockWorkers |-> <<>>]
    /\ lock_appends = 0

\* __init__, lines 183-187 and 225: the lock is free and the channel's
\* history is an empty list
LockInit ==
    /\ lock_max_tx \in 1..MaxConfigured
    /\ LockRest

LockParked ==
    /\ lock_max_tx = 1
    /\ LockRest

\* line 457: with self.transmission_lock (acquire blocks while it is held)
LockAcquire(w) ==
    /\ lock_pc[w] = "idle"
    /\ lock_appends < MaxLockAppends
    /\ transmission_lock = 0
    /\ transmission_lock' = w
    /\ lock_pc' = [lock_pc EXCEPT ![w] = "locked"]
    /\ UNCHANGED <<heap, history_ref, batch_ref, batch_sent, lock_appends,
                   lock_max_tx>>
    /\ UNCHANGED nonLock

\* the batch is the history list itself
AliasOfHistory(history_object, slice_object) == history_object

\* line 463: history[-max_tx:] is a new list object
BatchObject(history_object, slice_object) == slice_object

\* lines 458-463: append to the history list in place; over the cap the
\* history becomes a new list (the slice of line 461); the batch is a slice;
\* leaving the with block releases the lock
LockedAppend(w) ==
    /\ lock_pc[w] = "locked"
    /\ LET tx == lock_appends + 1
           cap == MaxLlmHistoryFor(lock_max_tx)
           appended_list == Append(heap[history_ref], tx)
           over == Len(appended_list) > cap
           heap1 == [heap EXCEPT ![history_ref] = appended_list]
           heap2 == IF over THEN Append(heap1, LastN(appended_list, cap))
                    ELSE heap1
           history == IF over THEN Len(heap2) ELSE history_ref
           recent == LastN(heap2[history], lock_max_tx)
           heap3 == Append(heap2, recent)
       IN  /\ heap' = heap3
           /\ history_ref' = history
           /\ batch_ref' = [batch_ref EXCEPT ![w] =
                               BatchObject(history, Len(heap3))]
           /\ batch_sent' = [batch_sent EXCEPT ![w] = recent]
    /\ lock_appends' = lock_appends + 1
    /\ transmission_lock' = 0
    /\ lock_pc' = [lock_pc EXCEPT ![w] = "http"]
    /\ UNCHANGED lock_max_tx
    /\ UNCHANGED nonLock

\* lines 465-517: the correlator's HTTP call, however long it takes, and the
\* use of its result; none of it touches the history
CorrelateReturns(w) ==
    /\ lock_pc[w] = "http"
    /\ lock_pc' = [lock_pc EXCEPT ![w] = "idle"]
    /\ UNCHANGED <<transmission_lock, heap, history_ref, batch_ref,
                   batch_sent, lock_appends, lock_max_tx>>
    /\ UNCHANGED nonLock

LockNext ==
    \/ \E w \in LockWorkers : LockAcquire(w)
    \/ \E w \in LockWorkers : LockedAppend(w)
    \/ \E w \in LockWorkers : CorrelateReturns(w)

(***************************************************************************)
(* Spec: the transcription pool and the monitor's callbacks.               *)
(***************************************************************************)
Init ==
    PoolInit /\ SourceParked /\ TrackerParked /\ LlmParked /\ RepairParked /\ PromptParked /\ ResponseParked /\ RecorderParked /\ StopParked /\ CountersParked /\ SnapshotParked /\ GuiParked /\ AreaParked /\ HistoryParked /\ ThreadsParked /\ RaceParked /\ LockParked

Next == PoolNext

Spec == Init /\ [][Next]_vars

JobIds == 1..Len(jobs)

\* every worker thread has left _worker_loop
AllWorkersExited == \A w \in Workers : wpc[w] = "exited"

\* C1: every job passed to submit has its callback invoked exactly once,
\* whatever the transcription outcome and whenever stop() is called.  Stated on
\* the states where nothing more can happen to a job: once a worker has
\* finished with it, or once every worker has left its loop, the job's
\* callback has been invoked exactly once.
C1_ExactlyOneCallback ==
    \A j \in JobIds :
        (jobs[j].status = "finished" \/ AllWorkersExited) => jobs[j].callbacks = 1

\* C2: per channel, transmissions are appended to the channel's history in
\* the order their segments were handed to recording_callback (job ids are
\* given in that order), for any number of workers.
C2_FinalizedOrder ==
    \A c \in Channels :
        \A i, k \in DOMAIN channel_transmissions[c] :
            i < k => channel_transmissions[c][i] < channel_transmissions[c][k]

\* The high-water mark of the job queue: the configured maxsize; the queue is
\* built without one, so the mark is taken just below the number of segments
\* the recorders hand over.
HighWaterMark == IF WorkQueueMaxsize > 0 THEN WorkQueueMaxsize ELSE MaxJobs - 1

\* C6: the number of jobs waiting in the job queue never exceeds the
\* high-water mark (submit blocks the recorder while the queue is full).
C6_QueueBelowHighWater == Len(QueuedJobs(work_queue)) <= HighWaterMark


(***************************************************************************)
(* SpecSource: the OpenSky source driven by the poller thread.             *)
\* C34: once stop_monitoring has marked the monitor as stopped, no job is
\* added to the work queue: no job stands behind a stop signal of the pool.
C34_NoJobAfterStopSignal ==
    \A i \in DOMAIN work_queue, j \in DOMAIN work_queue :
        (i < j /\ work_queue[i] = NoneItem) => work_queue[j] = NoneItem

(***************************************************************************)
InitSource ==
    PoolInit /\ SourceInit /\ TrackerParked /\ LlmParked /\ RepairParked /\ PromptParked /\ ResponseParked /\ RecorderParked /\ StopParked /\ CountersParked /\ SnapshotParked /\ GuiParked /\ AreaParked /\ HistoryParked /\ ThreadsParked /\ RaceParked /\ LockParked

SpecSource == InitSource /\ [][SourceNext]_vars

\* C7: with credentials, a state request never carries a cached token that had
\* 60 s or less until expiry when the request was prepared; when the cached
\* token cannot be reused the token endpoint is asked before the state
\* request, and a header, if any, carries the token issued last.
C7_NoStaleToken ==
    (credentials /\ req.sent) =>
        IF req.cached
        THEN req.hdr # 0 /\ req.remaining > TOKEN_REFRESH_MARGIN /\ req.posts = 0
        ELSE req.posts >= 1 /\ req.hdr \in {0, req.newest}

\* C7 witness: a cached token existed but was too close to its expiry; the
\* token endpoint was asked and the request carried the newly issued token
C7_Witness ==
    req.sent /\ req.stale /\ ~req.cached /\ req.remaining > 0
             /\ req.hdr = req.newest /\ req.hdr >= 2

C9_NoAuthAfterDenial ==
    denied.seen => (~denied.posts_after /\ ~denied.auth_after)

\* C35: within one token acquisition the token endpoint is contacted at most
\* twice; the second POST, with HTTP Basic authentication, is made if and
\* only if the first one answered HTTP 400; when the second one fails too,
\* no token is returned and the acquisition ends without a third attempt.
C35_AtMostOneFallback ==
    /\ call.posts <= 2
    /\ (call.posts = 2) <=> (call.second # "none")
    /\ (opc = "send" /\ call.posts >= 1) =>
          /\ (call.second # "none") <=> (call.first = "400")
          /\ (call.second \notin {"none", "ok"}) => hdr = 0

\* C35 witness: the first POST answered 400, the Basic fallback failed, and
\* the acquisition ended after two POSTs without a token
C35_Witness ==
    /\ opc = "send"
    /\ call.first = "400"
    /\ call.second \in {"4xx", "5xx", "exc"}
    /\ call.posts = 2
    /\ hdr = 0

\* C38: every state request sent without an Authorization header, also one
\* sent without it because the token acquisition failed although credentials
\* are configured, is at least RATE_LIMIT_ANON seconds after the previous
\* state request.
C38_AnonymousSpacing ==
    (req.sent /\ req.gap # -1 /\ req.hdr = 0) => req.gap >= RATE_LIMIT_ANON


(***************************************************************************)
(* SpecTracker: the contacts snapshot with its writer and a reader.        *)
(***************************************************************************)
InitTracker ==
    PoolInit /\ SourceParked /\ TrackerInit /\ LlmParked /\ RepairParked /\ PromptParked /\ ResponseParked /\ RecorderParked /\ StopParked /\ CountersParked /\ SnapshotParked /\ GuiParked /\ AreaParked /\ HistoryParked /\ ThreadsParked /\ RaceParked /\ LockParked

SpecTracker == InitTracker /\ [][TrackerNext]_vars

\* C4: when a poll fails with a network or HTTP error, the snapshot after the
\* tick equals the snapshot before it.
C4_FailedPollKeepsSnapshot ==
    (tick.outcome = "neterr" /\ tpc = "idle") =>
        dicts[current_aircraft] = tick.before

\* C5: a reader running concurrently with update_aircraft_positions observes
\* the complete content of one snapshot (the previous or the new one): the
\* dict it iterates is complete from the moment it is reached, and what the
\* reader has got at the end is that snapshot's whole content.
C5_ReaderSeesWholeSnapshot ==
    /\ rdpc \in {"iter", "done", "raised"} => dicts[rref] = full[rref]
    /\ rdpc = "done" => rseen = full[rref]

(***************************************************************************)
(* SpecLLM: one channel's transmissions through run_llm_correlation.       *)
(***************************************************************************)
InitLLM ==
    PoolInit /\ SourceParked /\ TrackerParked /\ LlmInit /\ RepairParked /\ PromptParked /\ ResponseParked /\ RecorderParked /\ StopParked /\ CountersParked /\ SnapshotParked /\ GuiParked /\ AreaParked /\ HistoryParked /\ ThreadsParked /\ RaceParked /\ LockParked

SpecLLM == InitLLM /\ [][LlmNext]_vars

\* C3: whenever the monitor resolves the transmission_id i of a correlation,
\* the transmission it resolves to (element i of the batch submitted) is the
\* transmission the prompt labelled [i].
C3_ResolvesLabelledTransmission ==
    resolved.happened => resolved.tx = resolved.labelled

(***************************************************************************)
(* SpecRepair: response texts through the truncation check of correlate.   *)
(***************************************************************************)
InitRepair ==
    PoolInit /\ SourceParked /\ TrackerParked /\ LlmParked /\ RepairInit /\ PromptParked /\ ResponseParked /\ RecorderParked /\ StopParked /\ CountersParked /\ SnapshotParked /\ GuiParked /\ AreaParked /\ HistoryParked /\ ThreadsParked /\ RaceParked /\ LockParked

SpecRepair == InitRepair /\ [][RepairNext]_vars

\* C10: when _attempt_json_repair runs on a text that is a valid JSON object,
\* whatever its string values hold, it returns the text unchanged apart from
\* stripped trailing whitespace.
C10_RepairKeepsValidObject ==
    (jpc = "parse" /\ repair_called /\ response_text \in ValidTexts) =>
        parse_input = RStrip(response_text)

\* where the right-most occurrence of any terminator pattern ends, or the
\* length of the text when none is found at a position > 0
LastTerminatorEnd(t) ==
    LET ends == {RFind(t, Patterns[p]) + Len(Patterns[p]) :
                    p \in {q \in DOMAIN Patterns : RFind(t, Patterns[q]) > 0}}
    IN  IF ends = {} THEN Len(t)
        ELSE CHOOSE e \in ends : \A k \in ends : k <= e

\* C29: when repair runs on a text with unmatched open braces or brackets,
\* the text is cut immediately after the right-most occurrence of any
\* terminator pattern, so that nothing before that terminator is discarded,
\* and the missing closers are appended, every "]" before every "}".
C29_CutAfterLastTerminator ==
    LET text == RStrip(response_text)
        open_braces == Count(text, "{") - Count(text, "}")
        open_brackets == Count(text, "[") - Count(text, "]")
    IN  (jpc = "parse" /\ repair_called
            /\ (open_braces > 0 \/ open_brackets > 0)) =>
            parse_input = SubSeq(text, 1, LastTerminatorEnd(text))
                              \o Repeat("]", open_brackets)
                              \o Repeat("}", open_braces)

\* C39: whenever _attempt_json_repair modifies a text, the text it returns
\* has as many closing braces as opening braces and as many closing brackets
\* as opening brackets.
C39_RepairedTextIsBalanced ==
    (jpc = "parse" /\ repair_called /\ parse_input # RStrip(response_text)) =>
        /\ Count(parse_input, "{") = Count(parse_input, "}")
        /\ Count(parse_input, "[") = Count(parse_input, "]")

(***************************************************************************)
(* SpecPrompt: correlate calls up to the request, under several windows.   *)
(***************************************************************************)
InitPrompt ==
    PoolInit /\ SourceParked /\ TrackerParked /\ LlmParked /\ RepairParked /\ PromptInit /\ ResponseParked /\ RecorderParked /\ StopParked /\ CountersParked /\ SnapshotParked /\ GuiParked /\ AreaParked /\ HistoryParked /\ ThreadsParked /\ RaceParked /\ LockParked

SpecPrompt == InitPrompt /\ [][PromptNext]_vars

\* the system prompt and the template alone fit in max_prompt
FixedPartsFit ==
    EstimateTokens(BarePromptLen) <= max_context_tokens - max_response_tokens

OverBudget == prompt_tokens + max_response_tokens > max_context_tokens

\* C11: when the system prompt and the template alone fit in max_prompt, the
\* prompt built for any contacts and transmissions has estimate(prompt) +
\* max_response <= context_window; otherwise the prompt is over budget, the
\* warning is logged and the request is sent all the same.  The warning is
\* logged exactly for the prompts that are over budget.
C11_PromptWithinWindow ==
    /\ (cpc \in {"built", "checked", "sent"} /\ FixedPartsFit) => ~OverBudget
    /\ (cpc \in {"built", "checked", "sent"} /\ ~FixedPartsFit) => OverBudget
    /\ cpc \in {"checked", "sent"} => (overflow_logged <=> OverBudget)
    /\ cpc = "sent" => request_sent

\* C11 witness: the budget left a contact out, and the prompt that was sent
\* is within the window
C11_Witness ==
    /\ cpc = "sent" /\ FixedPartsFit /\ ~overflow_logged
    /\ 1 <= num_adsb /\ num_adsb < Len(adsb_data) /\ num_tx >= 1

(***************************************************************************)
(* SpecResponse: correlate calls from the request on.                      *)
(***************************************************************************)
InitResponse ==
    PoolInit /\ SourceParked /\ TrackerParked /\ LlmParked /\ RepairParked /\ PromptParked /\ ResponseInit /\ RecorderParked /\ StopParked /\ CountersParked /\ SnapshotParked /\ GuiParked /\ AreaParked /\ HistoryParked /\ ThreadsParked /\ RaceParked /\ LockParked

SpecResponse == InitResponse /\ [][ResponseNext]_vars

\* C12: every correlation of a non-error result has an integer
\* transmission_id with 0 <= transmission_id < len(batch).
C12_TransmissionIdInBatch ==
    result.kind = "ok" =>
        \A i \in DOMAIN result.correlations :
            /\ result.correlations[i].tid_kind = "int"
            /\ 0 <= result.correlations[i].tid
            /\ result.correlations[i].tid < batch_len

\* C13: correlate never raises, whatever the LLM call does: it returns a
\* record with the keys correlations, alerts and summary, or an error record
\* with the keys error and raw.
C13_AlwaysReturnsRecord ==
    /\ xpc # "raised"
    /\ xpc \in {"returned", "done"} =>
          \/ {"correlations", "alerts", "summary"} \subseteq result.keys
          \/ {"error", "raw"} \subseteq result.keys

\* C13 witness: an alert that is not a dict made the filter raise inside the
\* try block, and correlate returned the error record
C13_Witness ==
    /\ xpc = "returned" /\ exc = "AttributeError" /\ result = ErrorRecord
    /\ parsed.alerts.shape = "list" /\ parsed.alerts.items # <<>>

\* C14: in a non-error result the alerts are exactly the response's alerts
\* with confidence >= 0.7, in their order; an alert with lower or missing
\* confidence is in no result and in no alert event.
C14_AlertsFiltered ==
    /\ result.kind = "ok" =>
          /\ \A i, k \in DOMAIN result.alerts :
                i < k => result.alerts[i].pos < result.alerts[k].pos
          /\ \A i \in DOMAIN result.alerts :
                /\ result.alerts[i].pos \in DOMAIN parsed.alerts.items
                /\ result.alerts[i].alert = parsed.alerts.items[result.alerts[i].pos]
                /\ result.alerts[i].alert.conf_kind = "number"
                /\ result.alerts[i].alert.conf >= ALERT_THRESHOLD
          /\ \A p \in DOMAIN parsed.alerts.items :
                (/\ parsed.alerts.items[p].conf_kind = "number"
                 /\ parsed.alerts.items[p].conf >= ALERT_THRESHOLD)
                    => \E i \in DOMAIN result.alerts : result.alerts[i].pos = p
    /\ \A i \in DOMAIN alert_events :
          /\ alert_events[i].alert.conf_kind = "number"
          /\ alert_events[i].alert.conf >= ALERT_THRESHOLD
    /\ xpc = "done" =>
          alert_events = (IF result.kind = "ok" THEN result.alerts ELSE <<>>)

\* C14 witness: of two alerts the one below the threshold was dropped and the
\* one at the threshold was reported
C14_Witness ==
    /\ xpc = "done" /\ result.kind = "ok"
    /\ Len(parsed.alerts.items) = 2 /\ Len(alert_events) = 1
    /\ alert_events[1].pos = 2 /\ alert_events[1].alert.conf = ALERT_THRESHOLD
    /\ parsed.alerts.items[1].conf_kind = "number"

(***************************************************************************)
(* SpecRecorder: one channel's recorder over every stream of chunks.       *)
(***************************************************************************)
InitRecorder ==
    PoolInit /\ SourceParked /\ TrackerParked /\ LlmParked /\ RepairParked /\ PromptParked /\ ResponseParked /\ RecorderInit /\ StopParked /\ CountersParked /\ SnapshotParked /\ GuiParked /\ AreaParked /\ HistoryParked /\ ThreadsParked /\ RaceParked /\ LockParked

SpecRecorder == InitRecorder /\ [][RecorderNext]_vars

\* C15: every segment written and handed to the callback, however it was
\* finalized, holds at least min_transmission_length (1 s) of audio.
C15_SegmentsAtLeastMinimum ==
    last_segment.how # "none" => ~last_segment.short

\* C16: while a segment is recorded, a silence shorter than the threshold
\* followed by voice does not end the segment: the silence counter is back at
\* 0, it counts the silent chunks since the last voiced one, the voice after
\* the silence goes into the same segment, and a segment ended by silence
\* ends at a full threshold of silent chunks.
C16_ShortSilenceKeepsSegment ==
    /\ (recording_transmission /\ gap = 0) => silence_count = 0
    /\ recording_transmission => silence_count = gap
    /\ ~split
    /\ last_segment.how = "silence" => last_segment.trailing = silence_chunks_threshold

\* C16 witness: a segment was ended by the silence threshold after it had
\* spanned voice, a silence of 1 s or more, and voice again
C16_Witness ==
    last_segment.how = "silence" /\ last_segment.bridged /\ ~last_segment.short

\* C17: once TranscriptionWorkerPool.start has returned (start_monitoring has
\* gone past it), every worker has finished load_model: no worker is still
\* loading.
C17_StartReturnsWhenReady ==
    spc # "new" => \A w \in Workers : wpc[w] # "load"

(***************************************************************************)
(* SpecStop: stop_monitoring on a running monitor, whatever the workers    *)
(* are doing.                                                              *)
(***************************************************************************)
InitStop ==
    PoolInit /\ SourceParked /\ TrackerParked /\ LlmParked /\ RepairParked /\ PromptParked /\ ResponseParked /\ RecorderParked /\ StopInit /\ CountersParked /\ SnapshotParked /\ GuiParked /\ AreaParked /\ HistoryParked /\ ThreadsParked /\ RaceParked /\ LockParked

SpecStop == InitStop /\ [][StopNext]_vars

\* C18: once stop_monitoring has returned, every decoder was sent its
\* termination signal no later than 2 s after the call, and the final
\* statistics were printed.
C18_DecodersTerminatedInTime ==
    kpc = "stopped" =>
        /\ \A c \in Channels : decoder[c] = "sigterm"
        /\ terminated_at <= 2
        /\ stats_printed

(***************************************************************************)
(* SpecCounters: every worker runs one callback, in any interleaving.      *)
(***************************************************************************)
InitCounters ==
    PoolInit /\ SourceParked /\ TrackerParked /\ LlmParked /\ RepairParked /\ PromptParked /\ ResponseParked /\ RecorderParked /\ StopParked /\ CountersInit /\ SnapshotParked /\ GuiParked /\ AreaParked /\ HistoryParked /\ ThreadsParked /\ RaceParked /\ LockParked

SpecCounters == InitCounters /\ [][CountersNext]_vars

\* C19: when every callback has finished, each counter equals the number of
\* increments that were performed on it.
C19_NoLostUpdate ==
    (\A w \in Workers : cb_pc[w].at = "done") =>
        \A c \in Counters : stats[c] = performed[c]

(***************************************************************************)
(* SpecSnapshot: the poller and the transcription thread of either monitor.*)
(***************************************************************************)
InitSnapshot ==
    PoolInit /\ SourceParked /\ TrackerParked /\ LlmParked /\ RepairParked /\ PromptParked /\ ResponseParked /\ RecorderParked /\ StopParked /\ CountersParked /\ SnapshotInit /\ GuiParked /\ AreaParked /\ HistoryParked /\ ThreadsParked /\ RaceParked /\ LockParked

SpecSnapshot == InitSnapshot /\ [][SnapshotNext]_vars

\* C20: only the poller thread assigns current_aircraft, and only the poller
\* thread triggers a refresh of it.
C20_OnlyPollerWrites ==
    /\ written_by \subseteq {"poller"}
    /\ refreshed_by \subseteq {"poller"}

(***************************************************************************)
(* SpecGui: publishers and the GUI's update thread, in any interleaving.   *)
(***************************************************************************)
InitGui ==
    PoolInit /\ SourceParked /\ TrackerParked /\ LlmParked /\ RepairParked /\ PromptParked /\ ResponseParked /\ RecorderParked /\ StopParked /\ CountersParked /\ SnapshotParked /\ GuiInit /\ AreaParked /\ HistoryParked /\ ThreadsParked /\ RaceParked /\ LockParked

SpecGui == InitGui /\ [][GuiNext]_vars

\* C21: the transmissions applied to the UI are published ones, each applied
\* at most once and in the order of publication (events are numbered in that
\* order), and the UI shows the newest applied ones in that order.
C21_AppliedInPublishedOrder ==
    /\ \A i \in 1..Len(applied) : applied[i] \in 1..published
    /\ \A i \in 1..Len(applied), j \in 1..Len(applied) :
          i < j => applied[i] < applied[j]
    /\ displayed_transcripts =
          SubSeq(applied, Len(applied) - Len(displayed_transcripts) + 1, Len(applied))

\* C21 witness: three events were applied with batches of more than one
\* allowed, the UI shows the newest two, and a further event waits for a flush
C21_Witness ==
    /\ Len(applied) >= 3
    /\ max_batch_size > 1
    /\ max_displayed_transcripts = 2
    /\ Len(displayed_transcripts) = 2
    /\ pending_transmissions # <<>>

\* the number of transmissions _enqueue_transmission has taken so far; they
\* are the events 1..Enqueued
Enqueued ==
    published - Cardinality({i \in DOMAIN update_queue :
                                update_queue[i] # OtherCommand})

\* C32: pending_transmissions never holds more than
\* max_pending_transmissions entries, and what it holds are the newest
\* enqueued transmissions in the order of their enqueueing: over the cap the
\* oldest are dropped, also while the overlay is not initialized.
C32_PendingIsNewestWithinCap ==
    /\ Len(pending_transmissions) <= max_pending_transmissions
    /\ \A i \in 1..Len(pending_transmissions) :
          pending_transmissions[i] =
              Enqueued - Len(pending_transmissions) + i

\* C32 witness: with a cap of 1 and the overlay not initialized, nothing has
\* been applied, three transmissions were enqueued and only the newest waits
C32_Witness ==
    /\ max_pending_transmissions = 1
    /\ ~overlay_initialized
    /\ applied = <<>>
    /\ Enqueued = 3
    /\ pending_transmissions = <<3>>

(***************************************************************************)
(* SpecArea: surveillance ticks over every response.                       *)
(***************************************************************************)
InitArea ==
    PoolInit /\ SourceParked /\ TrackerParked /\ LlmParked /\ RepairParked /\ PromptParked /\ ResponseParked /\ RecorderParked /\ StopParked /\ CountersParked /\ SnapshotParked /\ GuiParked /\ AreaInit /\ HistoryParked /\ ThreadsParked /\ RaceParked /\ LockParked

SpecArea == InitArea /\ [][AreaNext]_vars

\* C22: every contact in the snapshot is at most search_radius away from the
\* reference point.
C22_SnapshotWithinRadius ==
    \A k \in DOMAIN snapshot : snapshot[k].dist <= SEARCH_RADIUS_NM

\* C22 witness: a tick whose response held a contact beyond the radius and a
\* contact exactly at the radius has ended, and the latter is in the snapshot
C22_Witness ==
    /\ area_pc = "idle"
    /\ area_result = "ok"
    /\ \E i \in DOMAIN area_response :
          area_response[i].kind = "valid" /\ area_response[i].dist > SEARCH_RADIUS_NM
    /\ \E k \in DOMAIN snapshot : snapshot[k].dist = SEARCH_RADIUS_NM

\* C24: after a tick whose response was received, every valid in-radius
\* vector of that response is in the snapshot, whatever else the response
\* held.
C24_OnlyMalformedSkipped ==
    (area_pc = "idle" /\ area_result \in {"ok", "raised"}) =>
        \A i \in DOMAIN area_response :
            (area_response[i].kind = "valid" /\ area_response[i].dist <= SEARCH_RADIUS_NM)
                => area_response[i].icao24 \in DOMAIN snapshot

\* the icao24 of the aircraft a dict entry holds
EntryIcao(key) == IF key > NumIcao THEN key - NumIcao ELSE key

\* C23: after a successful tick the snapshot's entries hold exactly the
\* aircraft of the list the source returned, and no two entries hold an
\* aircraft with the same icao24.
C23_OneEntryPerIcao ==
    (tick.outcome = "ok" /\ tpc = "idle") =>
        /\ {EntryIcao(k) : k \in dicts[current_aircraft]} =
               {tlist[i].icao24 : i \in DOMAIN tlist}
        /\ \A k1 \in dicts[current_aircraft], k2 \in dicts[current_aircraft] :
               EntryIcao(k1) = EntryIcao(k2) => k1 = k2

\* the ceiling of silence_duration x chunks_per_second
CeilingOfThreshold ==
    (SILENCE_DURATION * SAMPLE_RATE + SAMPLES_PER_CHUNK - 1) \div SAMPLES_PER_CHUNK

\* C25: a segment ended by silence ends when the run of silent chunks reaches
\* the ceiling of silence_duration x chunks_per_second (47), not earlier; and
\* when no segment is being recorded the buffer is empty and the counter 0.
C25_FinalizedAtCeiling ==
    /\ last_segment.how = "silence" => last_segment.trailing = CeilingOfThreshold
    /\ recording_transmission => silence_count < CeilingOfThreshold
    /\ ~recording_transmission => (current_transmission = 0 /\ silence_count = 0)

\* C26: when the stream ends, the loop is left and the decoder is terminated;
\* a segment in progress is saved whole by the finally block and, unless
\* writing the file failed, handed to the callback as the last segment; with
\* no segment in progress nothing is written.
C26_EndOfStreamFlushes ==
    /\ rec_pc = "loop" => (ffmpeg_process = "running" /\ final_segment = NoFinal)
    /\ rec_pc = "ended" =>
          /\ ffmpeg_process \in {"terminated", "killed"}
          /\ recording_transmission =>
                /\ final_segment.attempted
                /\ final_segment.chunks = current_transmission
                /\ final_segment.handed => last_segment.how = "end"
          /\ ~recording_transmission =>
                (final_segment = NoFinal /\ last_segment.how # "end")

\* C26 witness: the stream ended during a segment of several chunks, which
\* was written and handed to the callback
C26_Witness ==
    /\ rec_pc = "ended"
    /\ final_segment.handed
    /\ final_segment.chunks >= 2
    /\ last_segment.how = "end"

\* a finished job whose transcription gave a failure value or raised, or whose
\* callback raised
FailedJob(j) ==
    /\ jobs[j].status = "finished"
    /\ jobs[j].outcome \in {"no_text", "raise"} \/ jobs[j].callback_raised

\* C27: a worker leaves its loop only when the pool was stopped; whenever it
\* is back at the top of the loop, also after a failed job, it has reported
\* idle and holds no job, so it takes the next job from the queue.
C27_WorkerSurvivesFailure ==
    \A w \in Workers :
        /\ wpc[w] = "exited" => ~running
        /\ wpc[w] \in {"check", "get"} => (wstatus[w] = "idle" /\ wjob[w] = 0)

\* C27 witness: the only worker that is past load_model had a job that
\* raised, in transcription or in its callback, and is busy with a later job
C27_Witness ==
    \E w \in Workers, j \in DOMAIN jobs :
        /\ \A v \in Workers \ {w} : wpc[v] = "load"
        /\ FailedJob(j)
        /\ jobs[j].outcome = "raise" \/ jobs[j].callback_raised
        /\ wpc[w] = "busy"
        /\ wjob[w] > j
        /\ wstatus[w] = "busy"

\* positions n-k+1 .. n in their order: the k newest of n items
NewestPositions(n, k) == [i \in 1..k |-> n - k + i]

\* the estimates of the included contacts, each formatted alone
IncludedContactTokens ==
    SumSeq([k \in DOMAIN adsb_included |-> EstimateTokens(adsb_data[adsb_included[k]])])

\* C28: the included transmissions are the k newest of the batch in their
\* original order, with k at most min(10, floor((max_response - 200) / 180));
\* the included contacts are the newest ones in their original order and fit
\* the 70% share of the budget; the counts returned are the lengths of the
\* included lists; a prompt is produced also when nothing is included.
C28_NewestSuffixInOrder ==
    cpc \in {"built", "checked", "sent"} =>
        /\ txs_included = NewestPositions(Len(transmissions), Len(txs_included))
        /\ Len(txs_included) <=
               Min(10, (max_response_tokens - 200) \div 180)
        /\ adsb_included = NewestPositions(Len(adsb_data), Len(adsb_included))
        /\ adsb_included # <<>> =>
               IncludedContactTokens <=
                   AdsbBudgetOf(AvailableFor(max_context_tokens, max_response_tokens))
        /\ num_tx = Len(txs_included)
        /\ num_adsb = Len(adsb_included)
        /\ prompt_tokens >= EstimateTokens(BarePromptLen)

\* C28 witness: the newer one of two transmissions is included, and the
\* newer two of three contacts
C28_Witness ==
    /\ cpc = "built"
    /\ Len(transmissions) = 2
    /\ Len(txs_included) = 1
    /\ Len(adsb_data) = 3
    /\ Len(adsb_included) = 2


(***************************************************************************)
(* SpecHistory: appends to the channels' histories.                        *)
(***************************************************************************)
InitHistory ==
    PoolInit /\ SourceParked /\ TrackerParked /\ LlmParked /\ RepairParked /\ PromptParked /\ ResponseParked /\ RecorderParked /\ StopParked /\ CountersParked /\ SnapshotParked /\ GuiParked /\ AreaParked /\ HistoryInit /\ ThreadsParked /\ RaceParked /\ LockParked

SpecHistory == InitHistory /\ [][HistoryNext]_vars

\* the newest n entries of a list, none for n = 0
NewestOf(s, n) == SubSeq(s, Len(s) - Min(n, Len(s)) + 1, Len(s))

\* C30: after every append a channel's history holds at most max_llm_history
\* transmissions, they are the ones appended to the channel most recently,
\* in the order of their appends, and max_llm_history is at least 3 times
\* the batch size max_tx under every configured value.
C30_HistoryIsNewestWithinCap ==
    LET H == MaxLlmHistoryFor(llm_max_transmissions)
    IN  /\ H >= 3 * max_tx(llm_max_transmissions)
        /\ \A c \in HistoryChannels :
              /\ Len(history_of[c]) <= H
              /\ history_of[c] = NewestOf(appended_to[c], H)

\* an append to a channel that already held max_llm_history transmissions
\* under a batch size of 1 or more: the oldest one has been dropped
C30_Witness ==
    /\ last_channel # 0
    /\ llm_max_transmissions >= 1
    /\ Len(appended_to[last_channel]) >
           MaxLlmHistoryFor(llm_max_transmissions)
    /\ Len(history_of[last_channel]) =
           MaxLlmHistoryFor(llm_max_transmissions)


(***************************************************************************)
(* SpecShutdown: the pool, the recorder threads' callbacks, stop and the   *)
(* background threads, in any interleaving; every thread that can take a   *)
(* step eventually takes one (each is scheduled, each blocking call of the *)
(* model returns).                                                         *)
(***************************************************************************)
InitShutdown ==
    PoolInit /\ SourceParked /\ TrackerParked /\ LlmParked /\ RepairParked /\ PromptParked /\ ResponseParked /\ RecorderParked /\ StopParked /\ CountersParked /\ SnapshotParked /\ GuiParked /\ AreaParked /\ HistoryParked /\ ThreadsInit /\ RaceParked /\ LockParked

ShutdownNext ==
    \/ StartMonitoring
    \/ \E w \in Workers : WorkerLoad(w)
    \/ \E w \in Workers : WorkerCheck(w)
    \/ \E w \in Workers : WorkerGet(w)
    \/ \E w \in Workers : WorkerTranscribe(w)
    \/ \E w \in Workers : WorkerCallback(w)
    \/ \E w \in Workers : WorkerCorrelate(w)
    \/ \E c \in Channels : RecordingCheck(c)
    \/ \E c \in Channels : RecordingSubmit(c)
    \/ StopMonitoring
    \/ StopPutNone
    \/ StopJoin
    \/ AdsbLoopTest
    \/ AdsbUpdate
    \/ AdsbWake
    \/ StatsLoopTest
    \/ StatsSample

WorkerStep(w) ==
    \/ WorkerLoad(w)
    \/ WorkerCheck(w)
    \/ WorkerGet(w)
    \/ WorkerTranscribe(w)
    \/ WorkerCallback(w)
    \/ WorkerCorrelate(w)

ShutdownFairness ==
    /\ \A w \in Workers : WF_vars(WorkerStep(w))
    /\ WF_vars(AdsbLoopTest \/ AdsbUpdate \/ AdsbWake)
    /\ WF_vars(StatsLoopTest \/ StatsSample)
    /\ WF_vars(StopPutNone \/ StopJoin)

SpecShutdown == InitShutdown /\ [][ShutdownNext]_vars /\ ShutdownFairness

AllThreadsEnded ==
    /\ \A w \in Workers : wpc[w] = "exited"
    /\ adsb_thread = "exited"
    /\ stats_thread = "exited"

\* C33: once stop_monitoring has marked the monitor as stopped, every
\* transcription worker thread, the ADS-B updater thread and the stats
\* updater thread eventually leave their loops and end (every job and HTTP
\* call in progress returns), and they stay ended.
C33_ThreadsEventuallyEnd ==
    (spc \in {"signal", "stopped"}) ~> [](AllThreadsEnded)

\* C33 witness: stop_monitoring has run on a monitor that had finished a
\* job, and every thread has ended
C33_Witness ==
    /\ spc = "stopped"
    /\ AllThreadsEnded
    /\ \E j \in DOMAIN jobs : jobs[j].status = "finished"


(***************************************************************************)
(* SpecStopRace: two calls of stop_monitoring and the recorder threads.    *)
(***************************************************************************)
InitStopRace ==
    PoolInit /\ SourceParked /\ TrackerParked /\ LlmParked /\ RepairParked /\ PromptParked /\ ResponseParked /\ RecorderParked /\ StopParked /\ CountersParked /\ SnapshotParked /\ GuiParked /\ AreaParked /\ HistoryParked /\ ThreadsParked /\ RaceInit /\ LockParked

SpecStopRace == InitStopRace /\ [][RaceNext]_vars

\* C36: every segment whose WAV the recorder has written, the segment
\* flushed by the finally block included, is submitted to the pool exactly
\* once.
C36_WrittenSegmentsSubmitted ==
    \A c \in RecorderChannels : wav_submitted[c] = wav_written[c]

\* C37: whatever the interleaving of the two calls of stop_monitoring with
\* each other and with the recorder threads, the pool is stopped once, each
\* decoder is sent terminate by stop_monitoring at most once, the statistics
\* are printed once, and when both calls are through no decoder that was
\* started or is still to be started stays running.
C37_StopIsIdempotent ==
    /\ pool_stops <= 1
    /\ statistics_prints <= 1
    /\ \A c \in RecorderChannels : terminate_calls[c] <= 1
    /\ (\A t \in StopCallers : stop_pc[t] = "done") =>
          \A c \in RecorderChannels : ffmpeg[c] # "running"


(***************************************************************************)
(* SpecLock: workers in run_llm_correlation, in any interleaving.          *)
(***************************************************************************)
InitLock ==
    PoolInit /\ SourceParked /\ TrackerParked /\ LlmParked /\ RepairParked /\ PromptParked /\ ResponseParked /\ RecorderParked /\ StopParked /\ CountersParked /\ SnapshotParked /\ GuiParked /\ AreaParked /\ HistoryParked /\ ThreadsParked /\ RaceParked /\ LockInit

SpecLock == InitLock /\ [][LockNext]_vars

\* C31: transmission_lock is held only by a worker that is appending to the
\* history and copying the recent view, never by a worker inside the
\* correlator's call, so that a worker that wants to append while others are
\* in their calls finds the lock free; and the batch a worker has passed to
\* correlate holds what it held when it was built, whatever other workers
\* have appended since.
C31_LockOnlyAroundAppend ==
    /\ transmission_lock # 0 => lock_pc[transmission_lock] = "locked"
    /\ \A w \in LockWorkers :
          lock_pc[w] = "http" =>
              /\ transmission_lock # w
              /\ heap[batch_ref[w]] = batch_sent[w]
    /\ (\A w \in LockWorkers : lock_pc[w] # "locked") =>
          \A w \in LockWorkers :
              (lock_pc[w] = "idle" /\ lock_appends < MaxLockAppends) =>
                  ENABLED LockAcquire(w)

\* C31 witness: worker 1 is still inside its correlator call with the batch
\* of the first transmission, and worker 2 has since appended the second one
\* and is inside its own call
C31_Witness ==
    /\ lock_pc[1] = "http"
    /\ lock_pc[2] = "http"
    /\ batch_sent[1] = <<1>>
    /\ heap[history_ref] = <<1, 2>>
    /\ heap[batch_ref[1]] = <<1>>

====
